---- MODULE Spec2Model ----
(***************************************************************************)
(* A model of services/image_compositor.py (ImageCompositor): the text     *)
(* measurer and word wrapper, the font and safe-zone resolvers, and the    *)
(* compose pipeline with its two layout modes.                             *)
(*                                                                         *)
(* A text is a sequence of one-character strings.  A font is a record      *)
(* [path, size]; the glyph metrics of the font library are those of an     *)
(* abstract type face (advance and ink box proportional to the size).      *)
(***************************************************************************)
EXTENDS Integers, Sequences, FiniteSets, TLC

\* ------------------------------------------------------------------ bounds
\* longest text enumerated character by character for the wrapper
MaxLen == 5

\* ------------------------------------------------------------ characters
WhiteSpace == {" ", "\n"}
IsSpace(c) == c \in WhiteSpace
\* "E" stands for one pictographic symbol (what emoji.emoji_list reports)
IsEmoji(c) == c = "E"
\* str.upper(), character by character
UpperChar(c) == CASE c = "a" -> "A" [] c = "g" -> "G" [] c = "w" -> "W" [] OTHER -> c
Upper(text) == [i \in 1..Len(text) |-> UpperChar(text[i])]

Max(a, b) == IF a >= b THEN a ELSE b
Min(a, b) == IF a <= b THEN a ELSE b

\* str.split(): maximal runs of non-whitespace characters, in order
\* where the words of text start, and where the word that starts at i ends
WordStarts(text) ==
    {i \in 1..Len(text) : ~IsSpace(text[i]) /\ (i = 1 \/ IsSpace(text[i - 1]))}
WordEnd(text, i) ==
    CHOOSE j \in i..Len(text) :
        /\ \A k \in i..j : ~IsSpace(text[k])
        /\ j = Len(text) \/ IsSpace(text[j + 1])
Split(text) ==
    [n \in 1..Cardinality(WordStarts(text)) |->
        LET i == CHOOSE x \in WordStarts(text) :
                     Cardinality({y \in WordStarts(text) : y <= x}) = n
        IN  SubSeq(text, i, WordEnd(text, i))]

\* ' '.join(words)
RECURSIVE JoinFrom(_, _)
JoinFrom(ws, i) ==
    IF i > Len(ws) THEN <<>>
    ELSE IF i = Len(ws) THEN ws[i]
    ELSE ws[i] \o <<" ">> \o JoinFrom(ws, i + 1)
Join(ws) == JoinFrom(ws, 1)

\* --------------------------------------------------------- font library
\* PIL's FreeTypeFont.getbbox, for a font [path, size]: the advance of a
\* glyph, and the top and bottom of its ink box below the ascender line.
BoldPaths == {"dejavu_bold", "mac_arial_bold", "mac_impact", "liberation_bold",
              "ms_impact", "win_impact", "lib_arial_bold", "ms_arial_bold",
              "win_arialbd"}
Advance(font, c) ==
    LET s == font.size
        b == IF font.path \in BoldPaths THEN s \div 10 ELSE 0
    IN  CASE IsSpace(c) -> (3 * s) \div 10
          [] c \in {"W", "w"} -> s + b
          [] c = "i" -> (3 * s) \div 10
          [] c \in {"A", "G"} -> (7 * s) \div 10 + b
          [] OTHER -> (6 * s) \div 10 + b
HasInk(c) == ~IsSpace(c)
InkTop(font, c) ==
    IF c \in {"A", "G", "W", "E"} THEN (2 * font.size) \div 10 ELSE (4 * font.size) \div 10
InkBottom(font, c) ==
    IF c = "g" THEN (11 * font.size) \div 10 ELSE (9 * font.size) \div 10

RECURSIVE AdvanceFrom(_, _, _)
AdvanceFrom(font, s, i) ==
    IF i > Len(s) THEN 0 ELSE Advance(font, s[i]) + AdvanceFrom(font, s, i + 1)
\* bbox[2] - bbox[0]
BBoxWidth(font, s) == AdvanceFrom(font, s, 1)
Inked(s) == {i \in 1..Len(s) : HasInk(s[i])}
\* bbox[1]
BBoxTop(font, s) ==
    IF Inked(s) = {} THEN 0
    ELSE IF \E i \in Inked(s) : InkTop(font, s[i]) = (2 * font.size) \div 10
         THEN (2 * font.size) \div 10 ELSE (4 * font.size) \div 10
\* bbox[3]
BBoxBottom(font, s) ==
    IF Inked(s) = {} THEN 0
    ELSE IF \E i \in Inked(s) : InkBottom(font, s[i]) = (11 * font.size) \div 10
         THEN (11 * font.size) \div 10 ELSE (9 * font.size) \div 10
\* bbox[3] - bbox[1]
LineHeight(font, s) == BBoxBottom(font, s) - BBoxTop(font, s)

\* ------------------------------------------------ segmenter and measurer
emoji_render_size(font) == Max(12, (font.size * 95) \div 100)

\* _iter_text_segments: plain runs and symbols, in order
RECURSIVE SegmentsFrom(_, _, _, _)
SegmentsFrom(text, i, last, segments) ==
    IF i > Len(text)
    THEN IF last <= Len(text)
         THEN Append(segments, [s |-> SubSeq(text, last, Len(text)), emoji |-> FALSE])
         ELSE segments
    ELSE IF IsEmoji(text[i])
         THEN SegmentsFrom(text, i + 1, i + 1,
                  Append(IF i > last
                         THEN Append(segments, [s |-> SubSeq(text, last, i - 1), emoji |-> FALSE])
                         ELSE segments,
                         [s |-> <<text[i]>>, emoji |-> TRUE]))
         ELSE SegmentsFrom(text, i + 1, last, segments)
\* a segmenter without the statement after the loop: the plain run after the
\* last symbol is not returned
IterSegmentsNoTail(text) ==
    LET segs == SegmentsFrom(text, 1, 1, <<>>)
    IN  IF Len(segs) > 1 /\ ~segs[Len(segs)].emoji
        THEN SubSeq(segs, 1, Len(segs) - 1)
        ELSE segs
iter_text_segments(text) ==
    IF \A i \in 1..Len(text) : ~IsEmoji(text[i])
    THEN IF text # <<>> THEN <<[s |-> text, emoji |-> FALSE]>> ELSE <<>>
    ELSE SegmentsFrom(text, 1, 1, <<>>)

RECURSIVE MeasureFrom(_, _, _)
MeasureFrom(segs, font, i) ==
    IF i > Len(segs) THEN 0
    ELSE (IF segs[i].s = <<>> THEN 0
          ELSE IF segs[i].emoji THEN emoji_render_size(font)
          ELSE BBoxWidth(font, segs[i].s))
         + MeasureFrom(segs, font, i + 1)
measure_text_mixed(text, font) == MeasureFrom(iter_text_segments(text), font, 1)

\* ---------------------------------------------------------------- wrapper
\* a loop body that measures the new word alone
WrapBodyWordOnly(cur, lines, word, font, max_width) ==
    IF measure_text_mixed(word, font) <= max_width
    THEN [cur |-> Append(cur, word), lines |-> lines]
    ELSE [cur |-> <<word>>,
          lines |-> IF cur # <<>> THEN Append(lines, Join(cur)) ELSE lines]
\* a loop body that starts the new line only when it flushed the old one
WrapBodyDropsWord(cur, lines, word, font, max_width) ==
    IF measure_text_mixed(Join(Append(cur, word)), font) <= max_width
    THEN [cur |-> Append(cur, word), lines |-> lines]
    ELSE IF cur # <<>>
         THEN [cur |-> <<word>>, lines |-> Append(lines, Join(cur))]
         ELSE [cur |-> cur, lines |-> lines]
\* a loop body that gives every word a line of its own
WrapBodyWordPerLine(cur, lines, word, font, max_width) ==
    [cur |-> <<word>>, lines |-> IF cur # <<>> THEN Append(lines, Join(cur)) ELSE lines]
\* one iteration of `for word in words` in _wrap_text
WrapBody(cur, lines, word, font, max_width) ==
    LET test_line == Join(Append(cur, word))
        width == measure_text_mixed(test_line, font)
    IN  IF width <= max_width
        THEN [cur |-> Append(cur, word), lines |-> lines]
        ELSE [cur |-> <<word>>,
              lines |-> IF cur # <<>> THEN Append(lines, Join(cur)) ELSE lines]
\* the statement after the loop
WrapTail(cur, lines) == IF cur # <<>> THEN Append(lines, Join(cur)) ELSE lines

\* the loop from word i on, st the current_line and lines reached; the test on
\* next.cur only makes each iteration be evaluated before the next one starts
RECURSIVE WrapFrom(_, _, _, _, _)
WrapFrom(ws, i, st, font, max_width) ==
    IF i > Len(ws) THEN WrapTail(st.cur, st.lines)
    ELSE LET next == WrapBody(st.cur, st.lines, ws[i], font, max_width)
         IN  IF next.cur = <<>>
             THEN WrapFrom(ws, i + 1, next, font, max_width)
             ELSE WrapFrom(ws, i + 1, next, font, max_width)
wrap_text(text, font, max_width) ==
    WrapFrom(Split(text), 1, [cur |-> <<>>, lines |-> <<>>], font, max_width)

\* ---------------------------------------------------------- font resolver
\* FONT_PATHS, each path under a short name:
\*   dejavu_bold      /usr/share/fonts/truetype/dejavu/DejaVuSans-Bold.ttf
\*   mac_arial_bold   /System/Library/Fonts/Supplemental/Arial Bold.ttf
\*   mac_impact       /System/Library/Fonts/Supplemental/Impact.ttf
\*   liberation_bold  /usr/share/fonts/truetype/liberation/LiberationSans-Bold.ttf
\*   ms_impact        /usr/share/fonts/truetype/msttcorefonts/Impact.ttf
\*   win_impact       C:\Windows\Fonts\impact.ttf
\*   lib_arial_bold   /Library/Fonts/Arial Bold.ttf
\*   ms_arial_bold    /usr/share/fonts/truetype/msttcorefonts/Arial_Bold.ttf
\*   win_arialbd      C:\Windows\Fonts\arialbd.ttf
\*   mac_helvetica    /System/Library/Fonts/Helvetica.ttc
\*   lib_helvetica    /Library/Fonts/Helvetica.ttc
\*   dejavu           /usr/share/fonts/truetype/dejavu/DejaVuSans.ttf
\*   mac_arial        /System/Library/Fonts/Supplemental/Arial.ttf
\*   lib_arial        /Library/Fonts/Arial.ttf
\*   liberation       /usr/share/fonts/truetype/liberation/LiberationSans-Regular.ttf
\*   ms_arial         /usr/share/fonts/truetype/msttcorefonts/Arial.ttf
\*   win_arial        C:\Windows\Fonts\arial.ttf
\*   noto_emoji       /usr/share/fonts/truetype/noto/NotoColorEmoji.ttf
FONT_PATHS ==
    [impact |-> <<"dejavu_bold", "mac_arial_bold", "mac_impact", "liberation_bold",
                  "ms_impact", "win_impact">>,
     arial_bold |-> <<"dejavu_bold", "mac_arial_bold", "lib_arial_bold", "liberation_bold",
                      "ms_arial_bold", "win_arialbd">>,
     helvetica_bold |-> <<"dejavu_bold", "liberation_bold", "mac_helvetica", "lib_helvetica">>,
     arial |-> <<"dejavu", "mac_arial", "lib_arial", "liberation", "ms_arial", "win_arial">>,
     liberation |-> <<"dejavu", "liberation", "mac_arial">>,
     noto_emoji |-> <<"noto_emoji">>]
FONT_STYLES ==
    [bold |-> "impact", clean |-> "liberation", modern |-> "arial_bold", classic |-> "arial"]
AllFontPaths == UNION {{FONT_PATHS[n][k] : k \in DOMAIN FONT_PATHS[n]} : n \in DOMAIN FONT_PATHS}

\* ImageFont.load_default(): the built-in face, at its own size
DefaultFont == [path |-> "default", size |-> 10]
NoFont == [path |-> "none", size |-> 0]

\* FONT_PATHS.get(font_name, FONT_PATHS["impact"])
CandidatePaths(font_name) ==
    IF font_name \in DOMAIN FONT_PATHS THEN FONT_PATHS[font_name] ELSE FONT_PATHS["impact"]

\* a candidate tried without the try/except around ImageFont.truetype
TryPathUnguarded(fs, path, size) ==
    IF path \notin fs.exists THEN [kind |-> "continue", font |-> NoFont]
    ELSE IF path \in fs.loads THEN [kind |-> "return", font |-> [path |-> path, size |-> size]]
    ELSE [kind |-> "raise", font |-> NoFont]
\* one iteration of `for path in paths` in _find_font, on the file system fs
\* (fs.exists: the paths that exist; fs.loads: those ImageFont.truetype loads)
TryPath(fs, path, size) ==
    IF path \notin fs.exists THEN [kind |-> "continue", font |-> NoFont]
    ELSE IF path \in fs.loads THEN [kind |-> "return", font |-> [path |-> path, size |-> size]]
    ELSE [kind |-> "continue", font |-> NoFont]

RECURSIVE FindFontFrom(_, _, _, _)
FindFontFrom(fs, paths, k, size) ==
    IF k > Len(paths) THEN [kind |-> "return", font |-> DefaultFont]
    ELSE LET r == TryPath(fs, paths[k], size)
         IN  IF r.kind = "continue" THEN FindFontFrom(fs, paths, k + 1, size) ELSE r
\* _find_font: [kind |-> "return", font] or [kind |-> "raise"]
find_font(fs, font_name, size) == FindFontFrom(fs, CandidatePaths(font_name), 1, size)

\* ----------------------------------------------------- safe-zone resolver
SAFE_ZONES ==
    [tiktok |-> [top |-> 160, bottom |-> 480, left |-> 60, right |-> 60],
     instagram_reels |-> [top |-> 108, bottom |-> 320, left |-> 60, right |-> 120],
     instagram_story |-> [top |-> 250, bottom |-> 250, left |-> 65, right |-> 65],
     youtube_shorts |-> [top |-> 120, bottom |-> 200, left |-> 60, right |-> 60],
     none |-> [top |-> 40, bottom |-> 40, left |-> 40, right |-> 40]]
SIZE_TO_SAFE_ZONE ==
    [tiktok |-> "tiktok", tiktok_square |-> "none", instagram_reels |-> "instagram_reels",
     instagram_story |-> "instagram_story", youtube_shorts |-> "youtube_shorts",
     facebook_story |-> "instagram_story"]
NoMargins == [top |-> -1, bottom |-> -1, left |-> -1, right |-> -1]

\* a resolver that uses the selector as the profile name, unchecked
GetSafeZoneUnchecked(output_size, safe_zone) ==
    LET zone_name ==
            IF safe_zone = "auto"
            THEN IF output_size \in DOMAIN SIZE_TO_SAFE_ZONE
                 THEN SIZE_TO_SAFE_ZONE[output_size] ELSE "none"
            ELSE safe_zone
    IN  IF zone_name \in DOMAIN SAFE_ZONES
        THEN [raised |-> FALSE, margins |-> SAFE_ZONES[zone_name]]
        ELSE [raised |-> TRUE, margins |-> NoMargins]
\* _get_safe_zone; raised: the KeyError of SAFE_ZONES[zone_name]
get_safe_zone(output_size, safe_zone) ==
    LET zone_name ==
            IF safe_zone = "auto"
            THEN IF output_size \in DOMAIN SIZE_TO_SAFE_ZONE
                 THEN SIZE_TO_SAFE_ZONE[output_size] ELSE "none"
            ELSE IF safe_zone \in DOMAIN SAFE_ZONES THEN safe_zone ELSE "none"
    IN  IF zone_name \in DOMAIN SAFE_ZONES
        THEN [raised |-> FALSE, margins |-> SAFE_ZONES[zone_name]]
        ELSE [raised |-> TRUE, margins |-> NoMargins]

\* ------------------------------------------------------------- size table
SIZES ==
    [instagram_square |-> <<1080, 1080>>, instagram_story |-> <<1080, 1920>>,
     instagram_reels |-> <<1080, 1920>>, instagram_portrait |-> <<1080, 1350>>,
     instagram_landscape |-> <<1080, 566>>, tiktok |-> <<1080, 1920>>,
     tiktok_square |-> <<1080, 1080>>, facebook_feed |-> <<1200, 628>>,
     facebook_story |-> <<1080, 1920>>, twitter |-> <<1200, 675>>,
     twitter_portrait |-> <<1080, 1350>>, youtube_thumbnail |-> <<1280, 720>>,
     youtube_shorts |-> <<1080, 1920>>, telegram |-> <<1280, 720>>]
\* SIZES.get(output_size, SIZES["instagram_square"])
TargetSize(output_size) ==
    IF output_size \in DOMAIN SIZES THEN SIZES[output_size] ELSE SIZES["instagram_square"]

\* ----------------------------------------------------------------- images
\* an image: its pixel size and what its pixels show
NoImage == [w |-> 0, h |-> 0, px |-> "none"]
\* Image.new("RGB", size, color)
NewImage(size, color) == [w |-> size[1], h |-> size[2], px |-> color]

\* a resize that covers the target and is not cropped
ResizeWithoutCrop(img, target_size) ==
    LET wider == img.w * target_size[2] > target_size[1] * img.h
    IN  [w |-> IF wider THEN (img.w * target_size[2]) \div img.h ELSE target_size[1],
         h |-> IF wider THEN target_size[2] ELSE (img.h * target_size[1]) \div img.w,
         px |-> img.px]
\* _resize_and_crop
resize_and_crop(img, target_size) ==
    LET target_w == target_size[1]
        target_h == target_size[2]
        wider == img.w * target_h > target_w * img.h
        new_w == IF wider THEN (img.w * target_h) \div img.h ELSE target_w
        new_h == IF wider THEN target_h ELSE (img.h * target_w) \div img.w
        left == (new_w - target_w) \div 2
        top == (new_h - target_h) \div 2
        right == left + target_w
        bottom == top + target_h
    IN  [w |-> right - left, h |-> bottom - top, px |-> img.px]

\* ----------------------------------------------------------- image source
\* str.lower() on the image sources of the model
Lower(src) == CASE src = "WHITE" -> "white" [] OTHER -> src
\* not image_source or image_source.lower() in ("white", "blank", "none", "")
IsBlankSource(src) == src = "" \/ Lower(src) \in {"white", "blank", "none", ""}
\* image_source.startswith("http")
HttpSources == {"http://cdn/photo.png"}
StartsWithHttp(src) == src \in HttpSources

\* ----------------------------------------------------------------- colours
\* the colour names PIL's ImageColor accepts, among those of the model
ValidColors == {"white", "black", "#FF5722", "#4A90E2", "#336699"}
IsPlainLine(text) == \E i \in 1..Len(text) : ~IsEmoji(text[i])

\* ------------------------------------------------------------ layout, drawing
HOOK_SIZE == 72
BODY_SIZE == 65
CTA_SIZE == 65
MIN_FONT_SIZE == 28
SHRINK_STEP == 3
EVEN_GAP == 70
ANCHORED_GAP == 25
BUTTON_EXTRA == 50
PADDING_V == 20

FontOf(fsys, font_name, size) == find_font(fsys, font_name, size).font

\* sum(font.getbbox(line)[3] - font.getbbox(line)[1] + spacing for line in lines)
RECURSIVE BlockHeightFrom(_, _, _, _)
BlockHeightFrom(font, ls, spacing, k) ==
    IF k > Len(ls) THEN 0
    ELSE LineHeight(font, ls[k]) + spacing + BlockHeightFrom(font, ls, spacing, k + 1)
BlockHeight(font, ls, spacing) == BlockHeightFrom(font, ls, spacing, 1)

\* cta_text after `if cta_emoji and cta_text`
CtaText(a) == IF a.cta_emoji /\ a.cta_text # <<>> THEN a.cta_text \o <<" ", "E">> ELSE a.cta_text
HookFontName(a) == IF a.bold_hook THEN "impact" ELSE "liberation"

\* the all_blocks list of the white-background branch
EvenBlocks(a, fsys, max_text_width) ==
    LET hook_font == FontOf(fsys, HookFontName(a), HOOK_SIZE)
        hook_lines == wrap_text(Upper(a.hook_text), hook_font, max_text_width)
        body_font == FontOf(fsys, "liberation", BODY_SIZE)
        body_lines == wrap_text(a.body_text, body_font, max_text_width)
        cta_text == CtaText(a)
        cta_font == FontOf(fsys, "liberation", CTA_SIZE)
        cta_lines == wrap_text(Upper(cta_text), cta_font, max_text_width)
    IN  (IF a.hook_text # <<>>
         THEN <<[type |-> "hook", lines |-> hook_lines, font |-> hook_font,
                 height |-> BlockHeight(hook_font, hook_lines, 6), spacing |-> 6]>>
         ELSE <<>>)
        \o
        (IF a.body_text # <<>>
         THEN <<[type |-> "body", lines |-> body_lines, font |-> body_font,
                 height |-> BlockHeight(body_font, body_lines, 8), spacing |-> 8]>>
         ELSE <<>>)
        \o
        (IF cta_text # <<>>
         THEN <<[type |-> "cta", lines |-> cta_lines, font |-> cta_font,
                 height |-> IF a.cta_style = "button"
                            THEN BBoxBottom(cta_font, cta_text) + BUTTON_EXTRA
                            ELSE BlockHeight(cta_font, cta_lines, 6),
                 spacing |-> 6]>>
         ELSE <<>>)

RECURSIVE SumBlockHeights(_, _)
SumBlockHeights(blocks, i) ==
    IF i > Len(blocks) THEN 0 ELSE blocks[i].height + SumBlockHeights(blocks, i + 1)

\* num_gaps = max(1, len(all_blocks) - 1)
NumGaps(n) == Max(1, n - 1)

\* y_offset = (height - total_content_height) // 2
EvenStart(height, margins, total_content_height) == (height - total_content_height) \div 2

\* the lines of one block drawn from y down: the y reached, what was drawn,
\* and the first exception ("" when none)
RECURSIVE DrawLinesFrom(_, _, _, _, _, _, _, _)
DrawLinesFrom(ls, k, y, font, spacing, type, colors, acc) ==
    IF k > Len(ls) THEN [y |-> y, drawn |-> acc, exc |-> ""]
    ELSE IF IsPlainLine(ls[k]) /\ ~(colors \subseteq ValidColors)
         THEN [y |-> y, drawn |-> acc, exc |-> "ValueError"]
         ELSE LET item == [kind |-> "text", block |-> type, text |-> ls[k], y |-> y,
                           bottom |-> y + LineHeight(font, ls[k]) + spacing,
                           size |-> font.size,
                           ink_top |-> y + BBoxTop(font, ls[k]),
                           ink_bottom |-> y + BBoxBottom(font, ls[k])]
              IN  DrawLinesFrom(ls, k + 1, item.bottom, font, spacing, type, colors,
                                Append(acc, item))

\* _draw_cta_button(img, draw, lines[0], ...): the bottom y, the button drawn
draw_cta_button(ls, y, font, button_color, acc) ==
    IF ls = <<>> THEN [y |-> y, drawn |-> acc, exc |-> "IndexError"]
    ELSE IF button_color \notin ValidColors THEN [y |-> y, drawn |-> acc, exc |-> "ValueError"]
    ELSE LET text == ls[1]
             text_height == BBoxBottom(font, text) - BBoxTop(font, text)
             button_height == text_height + (PADDING_V * 2)
             button_y2 == y + button_height
         IN  [y |-> button_y2,
              drawn |-> Append(acc, [kind |-> "button", block |-> "cta", text |-> text, y |-> y,
                                     bottom |-> button_y2, size |-> font.size,
                                     ink_top |-> y, ink_bottom |-> button_y2,
                                     fill |-> button_color]),
              exc |-> ""]

\* the loop over the blocks that draws them, a gap after each but the last
RECURSIVE DrawBlocksFrom(_, _, _, _, _, _, _, _)
DrawBlocksFrom(blocks, i, y, cta_style, button_color, colors, gap, acc) ==
    IF i > Len(blocks) THEN [y |-> y, drawn |-> acc, exc |-> ""]
    ELSE LET b == blocks[i]
             r == IF b.type = "cta" /\ cta_style = "button"
                  THEN draw_cta_button(b.lines, y, b.font, button_color, acc)
                  ELSE DrawLinesFrom(b.lines, 1, y, b.font, b.spacing, b.type, colors, acc)
         IN  IF r.exc # "" THEN r
             ELSE DrawBlocksFrom(blocks, i + 1, IF i < Len(blocks) THEN r.y + gap ELSE r.y,
                                 cta_style, button_color, colors, gap, r.drawn)

\* one pass of the while loop of the image-background branch at size
\* current_body_size: text_blocks and total_height
ShrinkPass(a, fsys, current_body_size, max_text_width) ==
    LET body_font == FontOf(fsys, "liberation", current_body_size)
        body_lines == wrap_text(a.body_text, body_font, max_text_width)
        cta_text == CtaText(a)
        cta_size == (CTA_SIZE * current_body_size) \div BODY_SIZE
        cta_font == FontOf(fsys, "liberation", Max(cta_size, MIN_FONT_SIZE))
        cta_lines == wrap_text(Upper(cta_text), cta_font, max_text_width)
        body_height == IF a.body_text # <<>> THEN BlockHeight(body_font, body_lines, 8) ELSE 0
        gap == IF cta_text # <<>> /\ a.body_text # <<>> THEN ANCHORED_GAP ELSE 0
        cta_height ==
            IF cta_text # <<>>
            THEN IF a.cta_style = "button"
                 THEN BBoxBottom(cta_font, cta_text) + BUTTON_EXTRA
                 ELSE BlockHeight(cta_font, cta_lines, 8)
            ELSE 0
    IN  [text_blocks |->
            (IF a.body_text # <<>>
             THEN <<[type |-> "body", lines |-> body_lines, font |-> body_font,
                     height |-> body_height, spacing |-> 8]>>
             ELSE <<>>)
            \o
            (IF cta_text # <<>>
             THEN <<[type |-> "cta", lines |-> cta_lines, font |-> cta_font,
                     height |-> cta_height, spacing |-> 8]>>
             ELSE <<>>),
         total_height |-> body_height + gap + cta_height]

\* ------------------------------------------------- _extract_dominant_color
\* a pixel value of getcolors: an (r, g, b) tuple, or a bare number in the
\* palette and greyscale modes
Rgb(r, g, b) == [tuple |-> TRUE, r |-> r, g |-> g, b |-> b]
Bare(v) == [tuple |-> FALSE, r |-> v, g |-> v, b |-> v]
\* f"#{r:02x}{g:02x}{b:02x}", as its six hexadecimal digits
Hex(c) == <<c.r \div 16, c.r % 16, c.g \div 16, c.g % 16, c.b \div 16, c.b % 16>>
\* the r + g + b of a colour written as six hexadecimal digits
HexSum(d) == (16 * d[1] + d[2]) + (16 * d[3] + d[4]) + (16 * d[5] + d[6])
\* "#FF5722"
DEFAULT_BUTTON == <<15, 15, 5, 7, 2, 2>>
THUMB_SIDE == 50
TOP_COLORS == 10
DARK_SUM == 100
LIGHT_SUM == 650

\* a test that lets the two limits through
VibrantInclusive(c) == c.tuple /\ (c.r + c.g + c.b) >= DARK_SUM /\ (c.r + c.g + c.b) <= LIGHT_SUM
\* isinstance(color, tuple) and (r + g + b) > 100 and (r + g + b) < 650
Vibrant(c) == c.tuple /\ (c.r + c.g + c.b) > DARK_SUM /\ (c.r + c.g + c.b) < LIGHT_SUM

\* colors.sort(key=lambda x: x[0], reverse=True): stable, larger counts first
SortRank(colors, i) ==
    1 + Cardinality({j \in DOMAIN colors :
                        \/ colors[j].count > colors[i].count
                        \/ colors[j].count = colors[i].count /\ j < i})
SortByCount(colors) ==
    [k \in DOMAIN colors |-> colors[CHOOSE i \in DOMAIN colors : SortRank(colors, i) = k]]

\* the loop over colors[:10] and the two `return "#FF5722"`
DominantOf(colors) ==
    IF colors = <<>> THEN DEFAULT_BUTTON
    ELSE LET sorted == SortByCount(colors)
             top == SubSeq(sorted, 1, Min(TOP_COLORS, Len(sorted)))
             hits == {k \in DOMAIN top : Vibrant(top[k].color)}
         IN  IF hits = {} THEN DEFAULT_BUTTON
             ELSE Hex(top[CHOOSE k \in hits : \A h \in hits : k <= h].color)

\* ImageColor.getrgb for the colour names of the model
ColorOf(name) ==
    CASE name = "white" -> Rgb(255, 255, 255)
      [] name = "black" -> Rgb(0, 0, 0)
      [] name = "#FF5722" -> Rgb(255, 87, 34)
      [] name = "#4A90E2" -> Rgb(74, 144, 226)
      [] name = "#336699" -> Rgb(51, 102, 153)
\* the colour name whose digits these are
HexText(d) == CHOOSE name \in ValidColors \ {"white", "black"} : Hex(ColorOf(name)) = d

\* the cells of the 50 x 50 thumbnail one drawn line covers
InkCells(item, image) ==
    (Len(item.text) * item.size * (item.ink_bottom - item.ink_top) * THUMB_SIDE * THUMB_SIDE)
        \div (2 * Max(image.w, image.h) * Max(image.w, image.h))
RECURSIVE InkCellsFrom(_, _, _)
InkCellsFrom(items, image, k) ==
    IF k > Len(items) THEN 0
    ELSE InkCells(items[k], image) + InkCellsFrom(items, image, k + 1)

\* small.getcolors(2500) of a canvas that carries the drawn items in the
\* colours `colors` (fill, outline): the photo of the model shows two flat
\* colours, the upper one where the hook is written
PhotoColors == <<[count |-> 1252, color |-> ColorOf("#336699")],
                 [count |-> 1248, color |-> ColorOf("#4A90E2")]>>
WhiteColors == <<[count |-> 2500, color |-> ColorOf("white")]>>
GetColors(image, items, colors) ==
    LET base == IF image.px = "photo" THEN PhotoColors ELSE WhiteColors
        cells == InkCellsFrom(items, image, 1)
        fill == cells \div 2
    IN  IF cells = 0 THEN base
        ELSE [base EXCEPT ![1].count = @ - cells]
             \o <<[count |-> fill, color |-> ColorOf(colors[1])],
                  [count |-> cells - fill, color |-> ColorOf(colors[2])]>>

\* _extract_dominant_color(img), img carrying what was drawn on it so far
extract_dominant_color(image, items, colors) ==
    HexText(DominantOf(GetColors(image, items, colors)))

\* ------------------------------------------------------ results, handlers
NoResult == [success |-> FALSE, error |-> <<>>, size |-> <<0, 0>>, url |-> <<>>]
ErrorPrefix(fn) ==
    CASE fn = "compose" -> "Composition failed"
      [] fn = "compose_split" -> "Split composition failed"
      [] fn = "compose_with_stickers" -> "Stickers composition failed"
      [] OTHER -> "failed"
Failure(fn, exc) ==
    [success |-> FALSE, error |-> <<ErrorPrefix(fn), exc>>, size |-> <<0, 0>>, url |-> <<>>]
\* a handler that catches HTTP errors only
ExceptHttpOnly(fn, exc) ==
    IF exc = "HTTPStatusError"
    THEN [pc |-> "returned", result |-> Failure(fn, exc)]
    ELSE [pc |-> "raised", result |-> NoResult]
\* except Exception as e: return {"success": False, "error": ...}
Except(fn, exc) == [pc |-> "returned", result |-> Failure(fn, exc)]

\* --------------------------------------------------- split and stickers
\* int(math.tan(math.radians(divider_angle)) * height / 2), for the angles of the model
AngleOffset(divider_angle, height) ==
    CASE divider_angle = 15 -> (26795 * height) \div 200000
      [] divider_angle = 30 -> (57735 * height) \div 200000
      [] OTHER -> 0

\* the text and outline colours compose_split and compose_with_stickers draw with
ContrastColors(bg, text_color, auto_is_white) ==
    IF bg \in {"white", "#ffffff", "#fff"}
    THEN [text |-> "black", outline |-> "white"]
    ELSE LET actual == IF auto_is_white /\ text_color = "auto" THEN "white" ELSE text_color
         IN  [text |-> actual, outline |-> IF actual = "white" THEN "black" ELSE "white"]

\* all_blocks of compose_split (spacing 8, button_extra 40, plain_extra 0) and
\* of compose_with_stickers (spacing 10, button_extra 50, plain_extra 10)
PanelBlocks(a, fsys, text_width, spacing, button_extra, plain_extra) ==
    LET hook_font == FontOf(fsys, "impact", HOOK_SIZE)
        hook_lines == wrap_text(Upper(a.hook_text), hook_font, text_width)
        body_font == FontOf(fsys, "liberation", BODY_SIZE)
        body_lines == wrap_text(a.body_text, body_font, text_width)
        cta_font == FontOf(fsys, "liberation", CTA_SIZE)
    IN  (IF a.hook_text # <<>>
         THEN <<[type |-> "hook", lines |-> hook_lines, font |-> hook_font,
                 height |-> BlockHeight(hook_font, hook_lines, spacing), spacing |-> spacing]>>
         ELSE <<>>)
        \o
        (IF a.body_text # <<>>
         THEN <<[type |-> "body", lines |-> body_lines, font |-> body_font,
                 height |-> BlockHeight(body_font, body_lines, spacing), spacing |-> spacing]>>
         ELSE <<>>)
        \o
        (IF a.cta_text # <<>>
         THEN <<[type |-> "cta", lines |-> <<Upper(a.cta_text)>>, font |-> cta_font,
                 height |-> BBoxBottom(cta_font, a.cta_text)
                            + (IF a.cta_style = "button" THEN button_extra ELSE plain_extra),
                 spacing |-> spacing]>>
         ELSE <<>>)

\* sticker_positions
StickerPositions(width, height, m) ==
    <<<<m.left, m.top>>, <<width - m.right - 150, m.top>>,
      <<m.left, height - m.bottom - 150>>,
      <<width - m.right - 150, height - m.bottom - 150>>>>

\* ------------------------------------------------------- compose_format
Formats == {"text_only", "meme", "stickers", "split"}
UnknownFormat(a) ==
    [success |-> FALSE, error |-> <<"Unknown format_type", a.format_type>>,
     size |-> <<0, 0>>, url |-> <<>>]
AsTextOnly(a) ==
    [a EXCEPT !.image_source = "white", !.text_color = "black", !.outline_color = "white",
              !.cta_button_color = IF @ = "auto" THEN "#FF5722" ELSE @]
AsMeme(a) ==
    [a EXCEPT !.outline_color = IF a.text_color = "white" THEN "black" ELSE "white"]
AsStickers(a) ==
    [a EXCEPT !.bg_color = "white", !.text_color = "black",
              !.cta_button_color = IF @ = "auto" THEN "#FF5722" ELSE @]
AsSplit(a) == [a EXCEPT !.text_color = "black"]
\* a dispatch whose last branch composes a meme
DispatchDefaultMeme(a) ==
    CASE a.format_type = "text_only" -> [fn |-> "compose", pc |-> "load", args |-> AsTextOnly(a)]
      [] a.format_type = "stickers" ->
            [fn |-> "compose_with_stickers", pc |-> "load", args |-> AsStickers(a)]
      [] a.format_type = "split" -> [fn |-> "compose_split", pc |-> "load", args |-> AsSplit(a)]
      [] OTHER -> [fn |-> "compose", pc |-> "load", args |-> AsMeme(a)]
\* the if / elif chain of compose_format: the method called and its arguments
Dispatch(a) ==
    CASE a.format_type = "text_only" -> [fn |-> "compose", pc |-> "load", args |-> AsTextOnly(a)]
      [] a.format_type = "meme" -> [fn |-> "compose", pc |-> "load", args |-> AsMeme(a)]
      [] a.format_type = "stickers" ->
            [fn |-> "compose_with_stickers", pc |-> "load", args |-> AsStickers(a)]
      [] a.format_type = "split" -> [fn |-> "compose_split", pc |-> "load", args |-> AsSplit(a)]
      [] OTHER -> [fn |-> "compose_format", pc |-> "returned", args |-> a]

\* ------------------------------------------------------------------ state
VARIABLES
    wpc,            \* _wrap_text: "split", "loop", "done" ("off" outside SpecWrap)
    w_text,         \* its argument text
    w_font,         \* its argument font
    w_max_width,    \* its argument max_width
    words,          \* text.split()
    w_i,            \* index of the next word of the for loop
    current_line,   \* current_line
    lines,          \* lines; the return value when wpc = "done"
    fs,             \* the file system: [exists, loads], sets of font paths
    fpc,            \* _find_font: "loop", "done", "raised" ("off" outside SpecFont)
    f_name,         \* its argument font_name
    f_size,         \* its argument size
    f_k,            \* index of the next candidate path
    f_result,       \* the font returned
    zpc,            \* _get_safe_zone: "call", "done", "raised" ("off" outside SpecZone)
    z_output_size,  \* its argument output_size
    z_safe_zone,    \* its argument safe_zone
    z_result,       \* the margins returned
    cpc,            \* the compose call: "dispatch", "load", "even", "hook", "shrink",
                    \* "place", "save", "returned", "raised" ("off" when there is none)
    entry,          \* the method the caller called
    fn,             \* the method running: compose, compose_split, compose_with_stickers
    args,           \* its arguments
    img,            \* img / canvas
    src_img,        \* compose_split: src_img
    blocks,         \* all_blocks / text_blocks
    extent,         \* total_content_height / total_height
    current_body_size,
    iters,          \* passes of the while loop so far
    drawn,          \* what has been drawn on the canvas, in order
    y_offset,       \* y_offset
    s_i,            \* compose_with_stickers: index of the next sticker URL
    result,         \* the dict returned
    fx,              \* effects so far: canvases created, fetches, file opens, saves
    storage,        \* what storage.save has stored so far, in order
    bpc,            \* batch_compose / api_compose_batch: "parse", "load", "call", "wait",
                    \* "returned", "raised" ("off" outside SpecBatch)
    b_entry,        \* which of the two was called
    b_input,        \* its arguments
    variations,     \* the variations list
    b_i,            \* the index of the variation in work, from 1
    base_img,       \* base_img of batch_compose
    results,        \* results
    b_result,       \* what the batch call returned
    img_shared,     \* img of compose is the caller's own image object
    base_ink,       \* what earlier calls have drawn on the caller's image
    emoji_cache,    \* self._emoji_cache: (symbol, size) -> bitmap
    cdn,            \* the Twemoji CDN answers ("up") or not ("down")
    epc,            \* per thread: where it is in _draw_text_with_outline_mixed
    e_call,         \* per thread: the call in work, or the last one finished
    spc,            \* _iter_text_segments: "call", "done" ("off" outside SpecSegments)
    s_text,         \* its argument text
    segments,       \* the list it returned
    dpc,            \* _extract_dominant_color: "call", "done" ("off" outside SpecColour)
    d_colors,       \* small.getcolors(2500): (count, colour) pairs
    d_result,       \* the string it returned, as hex digits
    mpc,            \* api_compose_modern: "validate", "compose", "save", "returned" ("off" outside SpecModern)
    m_input,        \* its arguments
    m_result        \* the dict it returned

wrapVars == <<wpc, w_text, w_font, w_max_width, words, w_i, current_line, lines>>
fontVars == <<fs, fpc, f_name, f_size, f_k, f_result>>
zoneVars == <<zpc, z_output_size, z_safe_zone, z_result>>
composeVars == <<cpc, entry, fn, args, img, src_img, blocks, extent, current_body_size, iters, drawn,
                 y_offset, s_i, result, fx>>
batchVars == <<bpc, b_entry, b_input, variations, b_i, base_img, results, b_result>>
shareVars == <<img_shared, base_ink>>
emojiVars == <<emoji_cache, cdn, epc, e_call>>
unitVars == <<spc, s_text, segments, dpc, d_colors, d_result, mpc, m_input, m_result>>
vars == <<wrapVars, fontVars, zoneVars, composeVars, storage, batchVars, shareVars, emojiVars, unitVars>>

WrapOff ==
    /\ wpc = "off" /\ w_text = <<>> /\ w_font = NoFont /\ w_max_width = 0
    /\ words = <<>> /\ w_i = 0 /\ current_line = <<>> /\ lines = <<>>
NoFs == [exists |-> {}, loads |-> {}]
FontCallOff == fpc = "off" /\ f_name = "" /\ f_size = 0 /\ f_k = 0 /\ f_result = NoFont
FontOff == fs = NoFs /\ FontCallOff
ZoneOff ==
    /\ zpc = "off" /\ z_output_size = "" /\ z_safe_zone = "" /\ z_result = NoMargins
NoFx == [canvas |-> 0, fetch |-> 0, open |-> 0, save |-> 0]
NoArgs == [format_type |-> ""]
ComposeIdle ==
    /\ img = NoImage /\ src_img = NoImage /\ blocks = <<>> /\ extent = 0 /\ current_body_size = 0 /\ iters = 0
    /\ drawn = <<>> /\ y_offset = 0 /\ s_i = 0 /\ result = NoResult /\ fx = NoFx
NoBatchResult == [success |-> FALSE, error |-> <<>>, items |-> <<>>]
BatchOff ==
    /\ bpc = "off" /\ b_entry = "" /\ b_input = [kind |-> "none"] /\ variations = <<>> /\ b_i = 0
    /\ base_img = NoImage /\ results = <<>> /\ b_result = NoBatchResult
    /\ img_shared = FALSE /\ base_ink = <<>>
Threads == {1, 2}
NoDraw == [text |-> <<>>, font |-> NoFont, k |-> 0, x |-> 0, out |-> <<>>, seen |-> {},
           cdn0 |-> "", wrote |-> FALSE, done |-> FALSE]
EmojiOff ==
    /\ emoji_cache = <<>> /\ cdn = "up"
    /\ epc = [p \in Threads |-> "off"] /\ e_call = [p \in Threads |-> NoDraw]
NoModernResult == [success |-> FALSE, error |-> "", url |-> <<>>]
SegmentsOff == spc = "off" /\ s_text = <<>> /\ segments = <<>>
ColourOff == dpc = "off" /\ d_colors = <<>> /\ d_result = <<>>
ModernOff == mpc = "off" /\ m_input = [kind |-> "none"] /\ m_result = NoModernResult
UnitOff == SegmentsOff /\ ColourOff /\ ModernOff
ComposeCallOff ==
    /\ cpc = "off" /\ entry = "" /\ fn = "" /\ args = NoArgs /\ ComposeIdle
    /\ storage = <<>> /\ BatchOff
ComposeOff == ComposeCallOff /\ EmojiOff /\ UnitOff

\* ---------------------------------------------------- _wrap_text, stepped
Alphabet == {"i", "E", " ", "\n"}
TextsUpTo(n) == UNION {[1..k -> Alphabet] : k \in 0..n}
WrapFonts == {[path |-> "dejavu", size |-> 10]}
WrapWidths == {2, 10, 30}

InitWrap ==
    /\ wpc = "split"
    /\ w_text \in TextsUpTo(MaxLen)
    /\ w_font \in WrapFonts
    /\ w_max_width \in WrapWidths
    /\ words = <<>>
    /\ w_i = 1
    /\ current_line = <<>>
    /\ lines = <<>>
    /\ FontOff /\ ZoneOff /\ ComposeOff

WrapSplit ==
    /\ wpc = "split"
    /\ words' = Split(w_text)
    /\ wpc' = "loop"
    /\ UNCHANGED <<w_text, w_font, w_max_width, w_i, current_line, lines, fontVars, zoneVars, composeVars, storage, batchVars, shareVars, emojiVars, unitVars>>

WrapWord ==
    /\ wpc = "loop"
    /\ w_i <= Len(words)
    /\ LET st == WrapBody(current_line, lines, words[w_i], w_font, w_max_width)
       IN  /\ current_line' = st.cur
           /\ lines' = st.lines
    /\ w_i' = w_i + 1
    /\ UNCHANGED <<wpc, w_text, w_font, w_max_width, words, fontVars, zoneVars, composeVars, storage, batchVars, shareVars, emojiVars, unitVars>>

WrapReturn ==
    /\ wpc = "loop"
    /\ w_i > Len(words)
    /\ lines' = WrapTail(current_line, lines)
    /\ wpc' = "done"
    /\ UNCHANGED <<w_text, w_font, w_max_width, words, w_i, current_line, fontVars, zoneVars, composeVars, storage, batchVars, shareVars, emojiVars, unitVars>>

NextWrap == WrapSplit \/ WrapWord \/ WrapReturn
SpecWrap == InitWrap /\ [][NextWrap]_vars

\* the words of the lines, line by line and left to right
RECURSIVE WordsOfLines(_, _)
WordsOfLines(ls, i) ==
    IF i > Len(ls) THEN <<>> ELSE Split(ls[i]) \o WordsOfLines(ls, i + 1)

\* C1: when _wrap_text returns, the words of its lines read in order are
\* exactly text.split() - none dropped, duplicated or reordered - and the
\* empty text gives no line.
C1_WrapComplete ==
    wpc = "done" =>
        /\ WordsOfLines(lines, 1) = Split(w_text)
        /\ (w_text = <<>> => lines = <<>>)
\* a text of three words, the first alone wider than max_width, wrapped
C1_Witness ==
    /\ wpc = "done"
    /\ Len(Split(w_text)) >= 2
    /\ Len(lines) >= 2
    /\ measure_text_mixed(lines[1], w_font) > w_max_width

\* C2: every returned line of two or more words measures at most max_width
\* (only a one-word line may be wider).
C2_WidthBound ==
    wpc = "done" =>
        \A k \in 1..Len(lines) :
            Len(Split(lines[k])) >= 2 => measure_text_mixed(lines[k], w_font) <= w_max_width
\* both cases: a two-word line within the bound and a one-word line beyond it
C2_Witness ==
    /\ wpc = "done"
    /\ \E k \in 1..Len(lines) : Len(Split(lines[k])) >= 2
    /\ \E k \in 1..Len(lines) :
          Len(Split(lines[k])) = 1 /\ measure_text_mixed(lines[k], w_font) > w_max_width

\* ---------------------------------------------------- _find_font, stepped
\* most font files present on the machine
MaxFiles == 2
FontNames == DOMAIN FONT_PATHS \cup DOMAIN FONT_STYLES \cup {"comic_sans"}
FontSizes == {72}
FileSystems ==
    UNION {{[exists |-> e, loads |-> e \ c] : c \in {x \in SUBSET e : Cardinality(x) <= 1}} :
              e \in {x \in SUBSET AllFontPaths : Cardinality(x) <= MaxFiles}}

InitFont ==
    /\ fs \in FileSystems
    /\ fpc = "loop"
    /\ f_name \in FontNames
    /\ f_size \in FontSizes
    /\ f_k = 1
    /\ f_result = NoFont
    /\ WrapOff /\ ZoneOff /\ ComposeOff

FontTry ==
    /\ fpc = "loop"
    /\ f_k <= Len(CandidatePaths(f_name))
    /\ LET r == TryPath(fs, CandidatePaths(f_name)[f_k], f_size)
       IN  /\ fpc' = CASE r.kind = "return" -> "done"
                       [] r.kind = "raise" -> "raised"
                       [] OTHER -> "loop"
           /\ f_result' = r.font
    /\ f_k' = f_k + 1
    /\ UNCHANGED <<fs, f_name, f_size, wrapVars, zoneVars, composeVars, storage, batchVars, shareVars, emojiVars, unitVars>>

FontDefault ==
    /\ fpc = "loop"
    /\ f_k > Len(CandidatePaths(f_name))
    /\ f_result' = DefaultFont
    /\ fpc' = "done"
    /\ UNCHANGED <<fs, f_name, f_size, f_k, wrapVars, zoneVars, composeVars, storage, batchVars, shareVars, emojiVars, unitVars>>

NextFont == FontTry \/ FontDefault
SpecFont == InitFont /\ [][NextFont]_vars

\* the candidates of the family that load, by position
Loadable(paths) == {k \in 1..Len(paths) : paths[k] \in fs.exists /\ paths[k] \in fs.loads}
FirstOf(S) == CHOOSE k \in S : \A j \in S : k <= j

\* C4: _find_font never raises, and returns the font of the first candidate
\* path, in list order, that exists and loads - the impact list standing in
\* for an unknown name - or the built-in default font when none does.
C4_FontTotalOrdered ==
    /\ fpc # "raised"
    /\ fpc = "done" =>
          LET paths == IF f_name \in DOMAIN FONT_PATHS THEN FONT_PATHS[f_name]
                       ELSE FONT_PATHS["impact"]
          IN  IF Loadable(paths) = {}
              THEN f_result = DefaultFont
              ELSE f_result = [path |-> paths[FirstOf(Loadable(paths))], size |-> f_size]
\* an unknown name, whose first existing candidate fails to load and a later one loads
C4_Witness ==
    /\ fpc = "done"
    /\ f_name = "comic_sans"
    /\ \E k \in 2..Len(FONT_PATHS["impact"]) :
          /\ f_result.path = FONT_PATHS["impact"][k]
          /\ \E j \in 1..(k - 1) :
                FONT_PATHS["impact"][j] \in fs.exists \ fs.loads

\* ------------------------------------------------ _get_safe_zone, stepped
OutputSizes == DOMAIN SIZES \cup {"billboard"}
ZoneSelectors == DOMAIN SAFE_ZONES \cup {"auto", "snapchat"}

InitZone ==
    /\ zpc = "call"
    /\ z_output_size \in OutputSizes
    /\ z_safe_zone \in ZoneSelectors
    /\ z_result = NoMargins
    /\ WrapOff /\ FontOff /\ ComposeOff

GetSafeZone ==
    /\ zpc = "call"
    /\ LET r == get_safe_zone(z_output_size, z_safe_zone)
       IN  /\ zpc' = IF r.raised THEN "raised" ELSE "done"
           /\ z_result' = r.margins
    /\ UNCHANGED <<z_output_size, z_safe_zone, wrapVars, fontVars, composeVars, storage, batchVars, shareVars, emojiVars, unitVars>>

NextZone == GetSafeZone
SpecZone == InitZone /\ [][NextZone]_vars

\* C5: _get_safe_zone is total and returns the profile of the lookup rule:
\* for "auto" the profile SIZE_TO_SAFE_ZONE maps the preset to, "none" when
\* it maps none; for another selector the profile of that name if there is
\* one, else "none"; the margins returned are four and none is negative.
C5_SafeZoneLookup ==
    /\ zpc # "raised"
    /\ zpc = "done" =>
          /\ z_result =
                IF z_safe_zone = "auto"
                THEN CASE z_output_size = "tiktok" -> SAFE_ZONES["tiktok"]
                       [] z_output_size = "instagram_reels" -> SAFE_ZONES["instagram_reels"]
                       [] z_output_size \in {"instagram_story", "facebook_story"} ->
                              SAFE_ZONES["instagram_story"]
                       [] z_output_size = "youtube_shorts" -> SAFE_ZONES["youtube_shorts"]
                       [] OTHER -> SAFE_ZONES["none"]
                ELSE CASE z_safe_zone \in {"tiktok", "instagram_reels", "instagram_story",
                                           "youtube_shorts", "none"} -> SAFE_ZONES[z_safe_zone]
                       [] OTHER -> SAFE_ZONES["none"]
          /\ DOMAIN z_result = {"top", "bottom", "left", "right"}
          /\ \A m \in DOMAIN z_result : z_result[m] >= 0
\* an unknown preset resolved under an unknown selector
C5_Witness ==
    /\ zpc = "done"
    /\ z_output_size = "billboard"
    /\ z_safe_zone = "snapchat"
    /\ z_result = SAFE_ZONES["none"]

\* ------------------------------------------------------- compose, stepped
\* n words of w characters c, one space between them
WordsOf(n, w, c) == [i \in 1..(n * (w + 1) - 1) |-> IF i % (w + 1) = 0 THEN " " ELSE c]

\* the arguments of a compose call, the others at their defaults
ComposeArgs(src, hook, body, cta, output_size, safe_zone, cta_style) ==
    [format_type |-> "", image_source |-> src, hook_text |-> hook, body_text |-> body,
     cta_text |-> cta, output_size |-> output_size, safe_zone |-> safe_zone,
     cta_style |-> cta_style, cta_button_color |-> "auto", text_color |-> "white",
     outline_color |-> "black", bold_hook |-> TRUE, cta_emoji |-> FALSE,
     preloaded |-> NoImage, preloaded_obj |-> "none", sticker_urls |-> <<>>, right_bg_color |-> "white",
     bg_color |-> "white", divider_angle |-> 15]

\* a Linux container with the DejaVu and Liberation faces installed
DockerFs == [exists |-> {"dejavu_bold", "dejavu", "liberation_bold", "liberation", "noto_emoji"},
             loads |-> {"dejavu_bold", "dejavu", "liberation_bold", "liberation"}]
\* the photos a fetch or a file can give
Photos == {[w |-> 1080, h |-> 1080, px |-> "photo"], [w |-> 800, h |-> 600, px |-> "photo"],
           [w |-> 600, h |-> 1200, px |-> "photo"]}

Margins(a) == get_safe_zone(a.output_size, a.safe_zone)
MaxTextWidth(a, image) == image.w - Margins(a).margins.left - Margins(a).margins.right

\* lines 435-446 of compose: how img is obtained, with every outcome of the
\* fetch, the decoding and the file system
LoadOutcomes(a, target_size) ==
    IF a.preloaded # NoImage
    THEN {[exc |-> "", img |-> a.preloaded, effect |-> "none"]}
    ELSE IF IsBlankSource(a.image_source)
    THEN {[exc |-> "", img |-> NewImage(target_size, "white"), effect |-> "canvas"]}
    ELSE IF StartsWithHttp(a.image_source)
    THEN {[exc |-> e, img |-> NoImage, effect |-> "fetch"] :
              e \in {"HTTPStatusError", "UnidentifiedImageError"}}
         \cup {[exc |-> "", img |-> p, effect |-> "fetch"] : p \in Photos}
    ELSE {[exc |-> e, img |-> NoImage, effect |-> "open"] :
              e \in {"FileNotFoundError", "UnidentifiedImageError"}}
         \cup {[exc |-> "", img |-> p, effect |-> "open"] : p \in Photos}

Count(effects, what) == [effects EXCEPT ![what] = @ + 1]

\* `img = _preloaded_image` stays the caller's own object when it is the base
\* image itself and `img.size != target_size` does not replace it
DrawsOnBase(a, image) ==
    /\ a.preloaded # NoImage
    /\ a.preloaded_obj = "base"
    /\ <<image.w, image.h>> = TargetSize(a.output_size)

\* what is drawn on the caller's base image: by earlier calls, and by this one
BaseInk == base_ink \o (IF img_shared THEN drawn ELSE <<>>)
\* what the image given to this call already carried
InkBefore == IF args.preloaded # NoImage THEN base_ink ELSE <<>>

\* compose up to `draw = ImageDraw.Draw(img)`: load, then resize and crop
ComposeLoad ==
    /\ cpc = "load"
    /\ fn = "compose"
    /\ \E o \in LoadOutcomes(args, TargetSize(args.output_size)) :
          /\ fx' = IF o.effect = "none" THEN fx ELSE Count(fx, o.effect)
          /\ IF o.exc # ""
             THEN /\ cpc' = Except(fn, o.exc).pc
                  /\ result' = Except(fn, o.exc).result
                  /\ img' = img
                  /\ img_shared' = img_shared
             ELSE /\ img' = IF <<o.img.w, o.img.h>> # TargetSize(args.output_size)
                            THEN resize_and_crop(o.img, TargetSize(args.output_size))
                            ELSE o.img
                  /\ img_shared' = DrawsOnBase(args, o.img)
                  /\ cpc' = IF IsBlankSource(args.image_source) THEN "even" ELSE "hook"
                  /\ result' = result
    /\ UNCHANGED <<entry, fn, args, src_img, blocks, extent, current_body_size, iters, drawn, y_offset, s_i>>
    /\ UNCHANGED <<wrapVars, fontVars, zoneVars, storage, batchVars, base_ink, emojiVars, unitVars>>

\* the white-background branch: all blocks measured, then drawn
ComposeEven ==
    /\ cpc = "even"
    /\ LET m == Margins(args)
           all_blocks == EvenBlocks(args, fs, MaxTextWidth(args, img))
           total_text_height == SumBlockHeights(all_blocks, 1)
           num_gaps == NumGaps(Len(all_blocks))
           total_content_height == total_text_height + EVEN_GAP * num_gaps
           btn_color == IF args.cta_button_color = "auto" THEN "#FF5722"
                        ELSE args.cta_button_color
           d == DrawBlocksFrom(all_blocks, 1, EvenStart(img.h, m.margins, total_content_height),
                               args.cta_style, btn_color,
                               {args.text_color, args.outline_color}, EVEN_GAP, <<>>)
           exc == IF m.raised THEN "KeyError" ELSE d.exc
       IN  IF exc # ""
           THEN /\ cpc' = Except(fn, exc).pc
                /\ result' = Except(fn, exc).result
                /\ UNCHANGED <<blocks, extent, drawn, y_offset>>
           ELSE /\ blocks' = all_blocks
                /\ extent' = total_content_height
                /\ drawn' = d.drawn
                /\ y_offset' = d.y
                /\ cpc' = "save"
                /\ result' = result
    /\ UNCHANGED <<entry, fn, args, src_img, img, current_body_size, iters, s_i, fx>>
    /\ UNCHANGED <<wrapVars, fontVars, zoneVars, storage, batchVars, shareVars, emojiVars, unitVars>>

\* the image-background branch: the hook drawn from the top margin
ComposeHook ==
    /\ cpc = "hook"
    /\ LET m == Margins(args)
           hook_font == FontOf(fs, HookFontName(args), HOOK_SIZE)
           hook_lines == wrap_text(Upper(args.hook_text), hook_font, MaxTextWidth(args, img))
           d == IF args.hook_text # <<>>
                THEN DrawLinesFrom(hook_lines, 1, m.margins.top, hook_font, 8, "hook",
                                   {args.text_color, args.outline_color}, <<>>)
                ELSE [y |-> y_offset, drawn |-> <<>>, exc |-> ""]
           exc == IF m.raised THEN "KeyError" ELSE d.exc
       IN  IF exc # ""
           THEN /\ cpc' = Except(fn, exc).pc
                /\ result' = Except(fn, exc).result
                /\ UNCHANGED <<drawn, y_offset, current_body_size>>
           ELSE /\ drawn' = d.drawn
                /\ y_offset' = d.y
                /\ result' = result
                /\ IF args.body_text # <<>> \/ CtaText(args) # <<>>
                   THEN cpc' = "shrink" /\ current_body_size' = BODY_SIZE
                   ELSE cpc' = "save" /\ current_body_size' = current_body_size
    /\ UNCHANGED <<entry, fn, args, src_img, img, blocks, extent, iters, s_i, fx>>
    /\ UNCHANGED <<wrapVars, fontVars, zoneVars, storage, batchVars, shareVars, emojiVars, unitVars>>

\* max_bottom_y - min_body_y
BottomBand(a, image) == (image.h - Margins(a).margins.bottom) - (image.h * 60) \div 100
\* a pass that leaves the size as it is
ShrinkStay(size) == size
\* a pass that skips every other size
ShrinkTwice(size) == size - 2 * SHRINK_STEP
\* current_body_size -= 3
ShrinkNext(size) == size - SHRINK_STEP

\* one pass of `while current_body_size >= MIN_FONT_SIZE`
ComposeShrink ==
    /\ cpc = "shrink"
    /\ current_body_size >= MIN_FONT_SIZE
    /\ LET p == ShrinkPass(args, fs, current_body_size, MaxTextWidth(args, img))
       IN  /\ blocks' = p.text_blocks
           /\ extent' = p.total_height
           /\ iters' = iters + 1
           /\ IF p.total_height <= BottomBand(args, img)
              THEN cpc' = "place" /\ current_body_size' = current_body_size
              ELSE /\ current_body_size' = ShrinkNext(current_body_size)
                   /\ cpc' = IF ShrinkNext(current_body_size) >= MIN_FONT_SIZE
                             THEN "shrink" ELSE "place"
    /\ UNCHANGED <<entry, fn, args, src_img, img, drawn, y_offset, s_i, result, fx>>
    /\ UNCHANGED <<wrapVars, fontVars, zoneVars, storage, batchVars, shareVars, emojiVars, unitVars>>

\* a start that is not held at the 60% line
AnchorUnclamped(max_bottom_y, total_height, min_body_y) == max_bottom_y - total_height
\* y_offset = max_bottom_y - total_height; if y_offset < min_body_y: y_offset = min_body_y
AnchorStart(max_bottom_y, total_height, min_body_y) ==
    IF max_bottom_y - total_height < min_body_y THEN min_body_y
    ELSE max_bottom_y - total_height

\* after the loop: body and CTA drawn up from the bottom margin
ComposePlace ==
    /\ cpc = "place"
    /\ LET max_bottom_y == img.h - Margins(args).margins.bottom
           min_body_y == (img.h * 60) \div 100
           start == AnchorStart(max_bottom_y, extent, min_body_y)
           btn_color == IF args.cta_button_color = "auto"
                        THEN extract_dominant_color(img, drawn,
                                                    <<args.text_color, args.outline_color>>)
                        ELSE args.cta_button_color
           d == DrawBlocksFrom(blocks, 1, start, args.cta_style, btn_color,
                               {args.text_color, args.outline_color}, ANCHORED_GAP, drawn)
       IN  IF d.exc # ""
           THEN /\ cpc' = Except(fn, d.exc).pc
                /\ result' = Except(fn, d.exc).result
                /\ UNCHANGED <<drawn, y_offset>>
           ELSE /\ drawn' = d.drawn
                /\ y_offset' = d.y
                /\ cpc' = "save"
                /\ result' = result
    /\ UNCHANGED <<entry, fn, args, src_img, img, blocks, extent, current_body_size, iters, s_i, fx>>
    /\ UNCHANGED <<wrapVars, fontVars, zoneVars, storage, batchVars, shareVars, emojiVars, unitVars>>

\* a storage that keeps what it was given even when save raises
StoreAlways(store, saved, item) == Append(store, item)
\* `await self.storage.save(...)`: the item is stored, or save raises
Store(store, saved, item) == IF saved THEN Append(store, item) ELSE store

\* img.save to PNG, `await self.storage.save(...)` and the return
ComposeSave ==
    /\ cpc = "save"
    /\ \E saved \in BOOLEAN :
          /\ storage' = Store(storage, saved, [args |-> args, drawn |-> drawn,
                                               ink |-> InkBefore \o drawn,
                                               size |-> <<img.w, img.h>>])
          /\ IF saved
             THEN /\ fx' = Count(fx, "save")
                  /\ cpc' = "returned"
                  /\ result' = [success |-> TRUE, error |-> <<>>, size |-> <<img.w, img.h>>,
                                url |-> <<"composed", Len(storage) + 1>>]
             ELSE /\ fx' = fx
                  /\ cpc' = Except(fn, "StorageError").pc
                  /\ result' = Except(fn, "StorageError").result
    /\ UNCHANGED <<entry, fn, args, src_img, img, blocks, extent, current_body_size, iters, drawn, y_offset, s_i>>
    /\ UNCHANGED <<wrapVars, fontVars, zoneVars, batchVars, shareVars, emojiVars, unitVars>>

\* ----------------------------------------- compose on a blank background
HookTexts == {<<>>, WordsOf(1, 4, "a"), WordsOf(3, 8, "a")}
BodyTexts == {<<>>, <<"a", "g", " ", "a">>, WordsOf(5, 13, "a")}
CtaTexts == {<<>>, <<" ", " ">>, <<"g", "o">>}
CtaStyles == {"text", "button"}

InitEven ==
    /\ cpc = "load"
    /\ entry = "compose"
    /\ fn = "compose"
    /\ args \in {ComposeArgs("white", WordsOf(3, 8, "a"), body, <<"g", "o">>, os, sz, st) :
                    body \in BodyTexts \ {<<>>}, os \in OutputSizes, sz \in ZoneSelectors,
                    st \in CtaStyles}
               \cup
               {ComposeArgs("white", hook, body, cta, os, sz, st) :
                    hook \in HookTexts, body \in BodyTexts, cta \in CtaTexts,
                    os \in {"instagram_square", "tiktok", "facebook_feed"},
                    sz \in {"auto", "instagram_reels"}, st \in CtaStyles}
    /\ fs = DockerFs
    /\ ComposeIdle /\ storage = <<>> /\ BatchOff /\ EmojiOff /\ UnitOff
    /\ WrapOff /\ FontCallOff /\ ZoneOff

NextEven == ComposeLoad \/ ComposeEven \/ ComposeSave
SpecEven == InitEven /\ [][NextEven]_vars

\* ----------------------------------------------- compose on a photograph
InitAnchored ==
    /\ cpc = "load"
    /\ entry = "compose"
    /\ fn = "compose"
    /\ args \in {ComposeArgs(src, hook, body, cta, os, sz, st) :
                    src \in {"http://cdn/photo.png"}, hook \in HookTexts, body \in BodyTexts,
                    cta \in CtaTexts,
                    os \in {"instagram_square", "instagram_landscape", "tiktok", "billboard"},
                    sz \in {"auto", "tiktok"}, st \in CtaStyles}
    /\ fs = DockerFs
    /\ ComposeIdle /\ storage = <<>> /\ BatchOff /\ EmojiOff /\ UnitOff
    /\ WrapOff /\ FontCallOff /\ ZoneOff

NextAnchored == ComposeLoad \/ ComposeHook \/ ComposeShrink \/ ComposePlace \/ ComposeSave
SpecAnchored == InitAnchored /\ [][NextAnchored]_vars

\* ------------------------------------------- compose_format and the rest
ComposeFormat ==
    /\ cpc = "dispatch"
    /\ LET d == Dispatch(args)
       IN  /\ fn' = d.fn
           /\ cpc' = d.pc
           /\ args' = d.args
           /\ result' = IF d.pc = "returned" THEN UnknownFormat(args) ELSE result
    /\ UNCHANGED <<entry, img, src_img, blocks, extent, current_body_size, iters, drawn,
                   y_offset, s_i, fx>>
    /\ UNCHANGED <<wrapVars, fontVars, zoneVars, storage, batchVars, shareVars, emojiVars, unitVars>>

\* compose_split up to canvas.paste: the canvas, the source image, the left panel
SplitSources(a, width, height) ==
    IF a.image_source # "" /\ StartsWithHttp(a.image_source)
    THEN {[exc |-> e, img |-> NoImage, effect |-> "fetch"] :
              e \in {"HTTPStatusError", "UnidentifiedImageError"}}
         \cup {[exc |-> "", img |-> p, effect |-> "fetch"] : p \in Photos}
    ELSE IF a.image_source # ""
    THEN {[exc |-> e, img |-> NoImage, effect |-> "open"] :
              e \in {"FileNotFoundError", "UnidentifiedImageError"}}
         \cup {[exc |-> "", img |-> p, effect |-> "open"] : p \in Photos}
    ELSE {[exc |-> "", img |-> NewImage(<<width \div 2, height>>, "#4A90E2"),
           effect |-> "canvas"]}

SplitLoad ==
    /\ cpc = "load"
    /\ fn = "compose_split"
    /\ LET target_size == TargetSize(args.output_size)
           width == target_size[1]
           height == target_size[2]
           left_width == width \div 2 + AngleOffset(args.divider_angle, height) + 20
       IN  IF args.right_bg_color \notin ValidColors
           THEN /\ cpc' = Except(fn, "ValueError").pc
                /\ result' = Except(fn, "ValueError").result
                /\ UNCHANGED <<img, src_img, drawn, fx>>
           ELSE \E o \in SplitSources(args, width, height) :
                   /\ fx' = Count(Count(fx, "canvas"), o.effect)
                   /\ img' = NewImage(target_size, args.right_bg_color)
                   /\ IF o.exc # ""
                      THEN /\ cpc' = Except(fn, o.exc).pc
                           /\ result' = Except(fn, o.exc).result
                           /\ UNCHANGED <<src_img, drawn>>
                      ELSE /\ src_img' = resize_and_crop(o.img, <<left_width, height>>)
                           /\ drawn' = <<[kind |-> "image", block |-> "left", text |-> <<>>,
                                          y |-> 0, bottom |-> height, size |-> left_width,
                                          ink_top |-> 0, ink_bottom |-> height]>>
                           /\ cpc' = "panel"
                           /\ result' = result
    /\ UNCHANGED <<entry, fn, args, blocks, extent, current_body_size, iters, y_offset, s_i>>
    /\ UNCHANGED <<wrapVars, fontVars, zoneVars, storage, batchVars, shareVars, emojiVars, unitVars>>

\* compose_split from the safe zone to the last block drawn
SplitDraw ==
    /\ cpc = "panel"
    /\ fn = "compose_split"
    /\ LET m == Margins(args)
           text_area_left == img.w \div 2 + 20
           text_area_width == (img.w - m.margins.right) - text_area_left
           c == ContrastColors(Lower(args.right_bg_color), args.text_color, TRUE)
           all_blocks == PanelBlocks(args, fs, text_area_width, 8, 40, 0)
           total_height == SumBlockHeights(all_blocks, 1) + (Len(all_blocks) - 1) * 30
           start_y == Max(m.margins.top, (img.h - total_height) \div 2)
           btn_color == IF args.cta_button_color = "auto" THEN extract_dominant_color(src_img, <<>>, <<>>)
                        ELSE args.cta_button_color
           d == DrawBlocksFrom(all_blocks, 1, start_y, args.cta_style, btn_color,
                               {c.text, c.outline}, 30, drawn)
           exc == IF m.raised THEN "KeyError" ELSE d.exc
       IN  IF exc # ""
           THEN /\ cpc' = Except(fn, exc).pc
                /\ result' = Except(fn, exc).result
                /\ UNCHANGED <<blocks, extent, drawn, y_offset>>
           ELSE /\ blocks' = all_blocks
                /\ extent' = total_height
                /\ drawn' = d.drawn
                /\ y_offset' = IF all_blocks = <<>> THEN start_y ELSE d.y + 30
                /\ cpc' = "save"
                /\ result' = result
    /\ UNCHANGED <<entry, fn, args, img, src_img, current_body_size, iters, s_i, fx>>
    /\ UNCHANGED <<wrapVars, fontVars, zoneVars, storage, batchVars, shareVars, emojiVars, unitVars>>

\* compose_with_stickers up to the sticker loop: the canvas and the text layout
StickersLayout ==
    /\ cpc = "load"
    /\ fn = "compose_with_stickers"
    /\ LET target_size == TargetSize(args.output_size)
           m == Margins(args)
           text_width == (target_size[1] - m.margins.right) - m.margins.left
           all_blocks == PanelBlocks(args, fs, text_width, 10, 50, 10)
           total_height == SumBlockHeights(all_blocks, 1) + (Len(all_blocks) - 1) * 40
           exc == IF args.bg_color \notin ValidColors THEN "ValueError"
                  ELSE IF m.raised THEN "KeyError" ELSE ""
       IN  IF exc # ""
           THEN /\ cpc' = Except(fn, exc).pc
                /\ result' = Except(fn, exc).result
                /\ UNCHANGED <<img, blocks, extent, y_offset, s_i, fx>>
           ELSE /\ img' = NewImage(target_size, args.bg_color)
                /\ fx' = Count(fx, "canvas")
                /\ blocks' = all_blocks
                /\ extent' = total_height
                /\ y_offset' = Max(m.margins.top, (target_size[2] - total_height) \div 2)
                /\ s_i' = 1
                /\ cpc' = "stickers"
                /\ result' = result
    /\ UNCHANGED <<entry, fn, args, src_img, current_body_size, iters, drawn>>
    /\ UNCHANGED <<wrapVars, fontVars, zoneVars, storage, batchVars, shareVars, emojiVars, unitVars>>

\* a loop over all of sticker_urls
StickerLimitAll(urls) == Len(urls)
\* sticker_urls[:4]: how many URLs the loop visits
StickerLimit(urls) == Min(Len(urls), 4)
\* canvas.paste(sticker, sticker_positions[i % 4], sticker), i counted from 1 here
PasteSticker(acc, a, image, i) ==
    LET pos == StickerPositions(image.w, image.h, Margins(a).margins)[((i - 1) % 4) + 1]
    IN  Append(acc, [kind |-> "sticker", block |-> a.sticker_urls[i], text |-> <<>>,
                     x |-> pos[1], y |-> pos[2], bottom |-> pos[2] + 150, size |-> i,
                     ink_top |-> pos[2], ink_bottom |-> pos[2] + 150])

\* one pass of `for i, url in enumerate(sticker_urls[:4])`: the fetch and the
\* decoding succeed and the sticker is pasted, or they raise and it is skipped
StickerFetch ==
    /\ cpc = "stickers"
    /\ s_i <= StickerLimit(args.sticker_urls)
    /\ \E loaded \in BOOLEAN :
          drawn' = IF loaded THEN PasteSticker(drawn, args, img, s_i) ELSE drawn
    /\ fx' = Count(fx, "fetch")
    /\ s_i' = s_i + 1
    /\ UNCHANGED <<cpc, entry, fn, args, img, src_img, blocks, extent, current_body_size, iters,
                   y_offset, result>>
    /\ UNCHANGED <<wrapVars, fontVars, zoneVars, storage, batchVars, shareVars, emojiVars, unitVars>>

\* compose_with_stickers after the sticker loop: the text drawn over them
StickersDraw ==
    /\ cpc = "stickers"
    /\ s_i > StickerLimit(args.sticker_urls)
    /\ LET c == ContrastColors(Lower(args.bg_color), args.text_color, FALSE)
           d == DrawBlocksFrom(blocks, 1, y_offset, args.cta_style, args.cta_button_color,
                               {c.text, c.outline}, 40, drawn)
       IN  IF d.exc # ""
           THEN /\ cpc' = Except(fn, d.exc).pc
                /\ result' = Except(fn, d.exc).result
                /\ UNCHANGED <<drawn, y_offset>>
           ELSE /\ drawn' = d.drawn
                /\ y_offset' = IF blocks = <<>> THEN y_offset ELSE d.y + 40
                /\ cpc' = "save"
                /\ result' = result
    /\ UNCHANGED <<entry, fn, args, img, src_img, blocks, extent, current_body_size, iters,
                   s_i, fx>>
    /\ UNCHANGED <<wrapVars, fontVars, zoneVars, storage, batchVars, shareVars, emojiVars, unitVars>>

\* the calls of the model: compose_format in each format, and the methods direct
FormatArgs(ft, src, hook, body, cta, output_size, cta_style, urls) ==
    [ComposeArgs(src, hook, body, cta, output_size, "auto", cta_style)
        EXCEPT !.format_type = ft, !.sticker_urls = urls]
ShortHook == WordsOf(1, 4, "a")
ShortBody == <<"a", "g", " ", "a">>
FormatCalls ==
    {FormatArgs("text_only", "", ShortHook, body, cta, os, st, <<>>) :
        body \in {<<>>, ShortBody}, cta \in CtaTexts,
        os \in {"instagram_square", "billboard", "tiktok"}, st \in CtaStyles}
    \cup
    {FormatArgs("meme", src, ShortHook, body, cta, os, st, <<>>) :
        src \in {"", "http://cdn/photo.png", "/data/photo.png"},
        body \in {<<>>, ShortBody}, cta \in CtaTexts,
        os \in {"instagram_square", "facebook_feed"}, st \in CtaStyles}
    \cup
    {FormatArgs("stickers", "", ShortHook, body, cta, os, st, urls) :
        body \in {<<>>, ShortBody}, cta \in {<<>>, <<"g", "o">>},
        os \in {"instagram_square", "tiktok"}, st \in CtaStyles,
        urls \in {<<>>, <<"http://s/1.png", "http://s/2.png">>,
                  <<"http://s/1.png", "http://s/2.png", "http://s/3.png", "http://s/4.png",
                    "http://s/5.png">>}}
    \cup
    {FormatArgs("split", src, ShortHook, body, cta, os, st, <<>>) :
        src \in {"", "http://cdn/photo.png", "white"},
        body \in {<<>>, ShortBody}, cta \in CtaTexts,
        os \in {"instagram_square", "youtube_thumbnail"}, st \in CtaStyles}
    \cup
    {FormatArgs(ft, src, ShortHook, <<>>, cta, "instagram_square", "text", <<>>) :
        ft \in {"gif", "", "MEME"}, src \in {"", "http://cdn/photo.png"},
        cta \in {<<>>, <<"g", "o">>}}
DirectCalls ==
    {[ComposeArgs(src, ShortHook, body, cta, os, "auto", st)
         EXCEPT !.preloaded = pre, !.preloaded_obj = IF pre = NoImage THEN "none" ELSE "base",
                !.text_color = color] :
        src \in {"white", "http://cdn/photo.png"}, body \in {<<>>, ShortBody},
        cta \in {<<>>, <<"g", "o">>}, os \in {"instagram_square", "tiktok"},
        st \in {"text"}, color \in {"white", "chartreuse-ish"},
        pre \in {NoImage, [w |-> 800, h |-> 600, px |-> "photo"],
                 [w |-> 1080, h |-> 1080, px |-> "white"]}}

InitCompose ==
    /\ \/ entry = "compose_format" /\ cpc = "dispatch" /\ fn = "" /\ args \in FormatCalls
       \/ entry = "compose" /\ cpc = "load" /\ fn = "compose" /\ args \in DirectCalls
    /\ fs = DockerFs
    /\ ComposeIdle /\ storage = <<>> /\ BatchOff /\ EmojiOff /\ UnitOff
    /\ WrapOff /\ FontCallOff /\ ZoneOff

NextCompose ==
    \/ ComposeFormat
    \/ ComposeLoad \/ ComposeEven \/ ComposeHook \/ ComposeShrink \/ ComposePlace
    \/ SplitLoad \/ SplitDraw
    \/ StickersLayout \/ StickerFetch \/ StickersDraw
    \/ ComposeSave
SpecCompose == InitCompose /\ [][NextCompose]_vars

\* ------------------------------------ batch_compose and api_compose_batch
MaxBatch == 2
\* JSON values: an object with the keys of a variation, a list, and the others
JObject(hook, body, cta) == [type |-> "object", hook |-> hook, body |-> body, cta |-> cta]
JOther(t) == [type |-> t, hook |-> <<>>, body |-> <<>>, cta |-> <<>>]
JList(items) == [type |-> "list", items |-> items]
\* json.loads(variations_json) if variations_json else []
JsonLoads(text) ==
    IF text.kind = "empty" THEN [exc |-> "", value |-> JList(<<>>)]
    ELSE IF text.kind = "invalid" THEN [exc |-> "JSONDecodeError", value |-> JList(<<>>)]
    ELSE [exc |-> "", value |-> text.value]

\* the state of a compose call that has not started
ComposeReset ==
    /\ img' = NoImage /\ src_img' = NoImage /\ blocks' = <<>> /\ extent' = 0
    /\ current_body_size' = 0 /\ iters' = 0 /\ drawn' = <<>> /\ y_offset' = 0 /\ s_i' = 0
    /\ result' = NoResult

\* api_compose_batch, lines 384-389: the variations parsed
RouteParse ==
    /\ bpc = "parse"
    /\ b_entry = "api_compose_batch"
    /\ LET p == JsonLoads(b_input.variations_json)
       IN  IF p.exc # ""
           THEN /\ bpc' = "returned"
                /\ b_result' = [success |-> FALSE, error |-> <<"Invalid JSON", p.exc>>,
                                items |-> <<>>]
                /\ UNCHANGED <<variations, b_i>>
           ELSE IF p.value.type # "list"
           THEN /\ bpc' = "returned"
                /\ b_result' = [success |-> FALSE,
                                error |-> <<"variations_json must be a JSON array">>,
                                items |-> <<>>]
                /\ UNCHANGED <<variations, b_i>>
           ELSE /\ bpc' = "call"
                /\ variations' = p.value.items
                /\ b_i' = 1
                /\ b_result' = b_result
    /\ UNCHANGED <<b_entry, b_input, base_img, results, storage>>
    /\ UNCHANGED <<wrapVars, fontVars, zoneVars, composeVars, shareVars, emojiVars, unitVars>>

\* batch_compose, lines 371-380: the base image loaded once
BatchLoad ==
    /\ bpc = "load"
    /\ b_entry = "batch_compose"
    /\ \E o \in LoadOutcomes(ComposeArgs(b_input.image_source, <<>>, <<>>, <<>>,
                                         b_input.output_size, "auto", b_input.cta_style),
                             TargetSize(b_input.output_size)) :
          /\ fx' = IF o.effect = "none" THEN fx ELSE Count(fx, o.effect)
          /\ IF o.exc # ""
             THEN /\ bpc' = "returned"
                  /\ b_result' = [success |-> TRUE, error |-> <<>>, items |-> <<>>]
                  /\ UNCHANGED <<base_img, b_i>>
             ELSE /\ bpc' = "call"
                  /\ base_img' = o.img
                  /\ b_i' = 1
                  /\ b_result' = b_result
    /\ UNCHANGED <<b_entry, b_input, variations, results, storage>>
    /\ UNCHANGED <<cpc, entry, fn, args, img, src_img, blocks, extent, current_body_size, iters,
                   drawn, y_offset, s_i, result>>
    /\ UNCHANGED <<wrapVars, fontVars, zoneVars, shareVars, emojiVars, unitVars>>

\* the arguments of the call made for variation v
BatchCallArgs(v) ==
    IF b_entry = "batch_compose"
    THEN [ComposeArgs(b_input.image_source, v.hook, v.body, v.cta, b_input.output_size, "auto",
                      b_input.cta_style)
             EXCEPT !.preloaded = base_img, !.preloaded_obj = "copy"]
    ELSE FormatArgs(b_input.format_type, b_input.image_source, v.hook, v.body, v.cta,
                    b_input.output_size, b_input.cta_style, <<>>)

\* `for var in variations:` / `for v in variations:` up to the awaited call;
\* var.get on an element that is not a dict raises AttributeError
BatchCall ==
    /\ bpc = "call"
    /\ b_i <= Len(variations)
    /\ IF variations[b_i].type # "object"
       THEN /\ IF b_entry = "batch_compose"
               THEN /\ bpc' = "returned"
                    /\ b_result' = [success |-> TRUE, error |-> <<>>, items |-> <<>>]
               ELSE /\ bpc' = "raised"
                    /\ b_result' = b_result
            /\ UNCHANGED <<cpc, entry, fn, args>>
       ELSE /\ bpc' = "wait"
            /\ b_result' = b_result
            /\ entry' = b_entry
            /\ args' = BatchCallArgs(variations[b_i])
            /\ IF b_entry = "batch_compose"
               THEN cpc' = "load" /\ fn' = "compose"
               ELSE cpc' = "dispatch" /\ fn' = ""
    /\ UNCHANGED <<b_entry, b_input, variations, b_i, base_img, results, storage>>
    /\ UNCHANGED <<img, src_img, blocks, extent, current_body_size, iters, drawn, y_offset, s_i,
                   result, fx>>
    /\ UNCHANGED <<wrapVars, fontVars, zoneVars, shareVars, emojiVars, unitVars>>

\* a result that is kept only when the call succeeded
CollectSuccessful(rs, res) == IF res.success THEN Append(rs, res.url) ELSE rs

\* the call returned: `if res.get("success"): results.append(res["url"])`
BatchCollect ==
    /\ bpc = "wait"
    /\ cpc = "returned"
    /\ results' = CollectSuccessful(results, result)
    /\ b_i' = b_i + 1
    /\ bpc' = "call"
    /\ cpc' = "off" /\ entry' = "" /\ fn' = "" /\ args' = NoArgs
    /\ ComposeReset
    /\ base_ink' = BaseInk
    /\ img_shared' = FALSE
    /\ UNCHANGED <<b_entry, b_input, variations, base_img, b_result, storage, fx>>
    /\ UNCHANGED <<wrapVars, fontVars, zoneVars, emojiVars, unitVars>>

\* routes.py 429-438: creative i is labelled with variations[i]
Creatives(urls, vs) ==
    [i \in 1..Len(urls) |->
        [index |-> i, url |-> urls[i],
         hook |-> IF i <= Len(vs) THEN vs[i].hook ELSE <<>>,
         body |-> IF i <= Len(vs) THEN vs[i].body ELSE <<>>,
         cta |-> IF i <= Len(vs) THEN vs[i].cta ELSE <<>>]]

\* after the loop: `return results`, or the response of the route
BatchReturn ==
    /\ bpc = "call"
    /\ b_i > Len(variations)
    /\ bpc' = "returned"
    /\ b_result' =
          IF b_entry = "batch_compose"
          THEN [success |-> TRUE, error |-> <<>>, items |-> results]
          ELSE IF results = <<>>
          THEN [success |-> FALSE,
                error |-> <<"Batch composition failed or produced no results">>,
                items |-> <<>>]
          ELSE [success |-> TRUE, error |-> <<>>, items |-> Creatives(results, variations)]
    /\ UNCHANGED <<b_entry, b_input, variations, b_i, base_img, results, storage>>
    /\ UNCHANGED <<wrapVars, fontVars, zoneVars, composeVars, shareVars, emojiVars, unitVars>>

\* the variations of the model: three objects with different hooks, the third
\* with a CTA of spaces, and a string
VarA == JObject(<<"a">>, <<>>, <<>>)
VarB == JObject(<<"w">>, <<"a">>, <<"g", "o">>)
VarC == JObject(<<"i">>, <<>>, <<" ">>)
Elements == {VarA, VarB, VarC, JOther("string")}
ListsUpTo(n) == UNION {[1..k -> Elements] : k \in 0..n}
JsonTexts ==
    {[kind |-> "empty"], [kind |-> "invalid"],
     [kind |-> "value", value |-> JOther("string")],
     [kind |-> "value", value |-> JOther("null")],
     [kind |-> "value", value |-> VarA]}
    \cup {[kind |-> "value", value |-> JList(l)] : l \in ListsUpTo(MaxBatch)}

InitBatch ==
    /\ \/ /\ b_entry = "batch_compose"
          /\ bpc = "load"
          /\ \E src \in {"white", "http://cdn/photo.png"}, st \in CtaStyles,
                l \in ListsUpTo(MaxBatch) :
                /\ b_input = [kind |-> "call", image_source |-> src,
                              output_size |-> "instagram_square", cta_style |-> st,
                              format_type |-> "", variations_json |-> [kind |-> "none"]]
                /\ variations = l
       \/ /\ b_entry = "api_compose_batch"
          /\ bpc = "parse"
          /\ \E ft \in {"text_only", "gif"}, st \in CtaStyles, j \in JsonTexts :
                b_input = [kind |-> "call", image_source |-> "", output_size |-> "instagram_square",
                           cta_style |-> st, format_type |-> ft, variations_json |-> j]
          /\ variations = <<>>
    /\ b_i = 0 /\ base_img = NoImage /\ results = <<>> /\ b_result = NoBatchResult
    /\ img_shared = FALSE /\ base_ink = <<>>
    /\ storage = <<>> /\ EmojiOff /\ UnitOff
    /\ cpc = "off" /\ entry = "" /\ fn = "" /\ args = NoArgs /\ ComposeIdle
    /\ fs = DockerFs
    /\ WrapOff /\ FontCallOff /\ ZoneOff

NextBatch ==
    \/ RouteParse \/ BatchLoad \/ BatchCall \/ BatchCollect \/ BatchReturn
    \/ ComposeFormat \/ ComposeLoad \/ ComposeEven \/ ComposeHook \/ ComposeShrink
    \/ ComposePlace \/ ComposeSave
SpecBatch == InitBatch /\ [][NextBatch]_vars

\* --------------------- _get_emoji_image and _draw_text_with_outline_mixed
\* what the CDN serves under the URL of a symbol: its 72x72 bitmap
TwemojiSide == 72
emoji_to_twemoji_url(emoji_char) == <<"twemoji", emoji_char>>
Served(url) == [sym |-> url[2], w |-> TwemojiSide, h |-> TwemojiSide]
\* an image stored as it was fetched
OpenedUnresized(image, size) == image
\* Image.open(...).convert("RGBA"), resized when it is not size x size
Opened(image, size) ==
    IF <<image.w, image.h>> # <<size, size>>
    THEN [sym |-> image.sym, w |-> size, h |-> size]
    ELSE image
\* dict assignment
Put(cache, key, value) ==
    [k \in DOMAIN cache \cup {key} |-> IF k = key THEN value ELSE cache[k]]

Segs(p) == iter_text_segments(e_call[p].text)
CacheKey(p) == <<Segs(p)[e_call[p].k].s[1], emoji_render_size(e_call[p].font)>>
NoBitmap == [sym |-> "", w |-> 0, h |-> 0]
\* one segment drawn by thread p as `how` ("text": stroked and filled, "glyph":
\* draw.text with the text font, "bitmap": the image pasted), the cursor advanced
Stamp(p, how, image, width) ==
    [e_call[p] EXCEPT
        !.out = Append(@, [s |-> Segs(p)[e_call[p].k].s, how |-> how, image |-> image,
                           x |-> e_call[p].x]),
        !.x = @ + width,
        !.k = @ + 1]

EmojiTexts == {<<"a", "E">>, <<"E", "a">>}
EmojiFonts == {[path |-> "dejavu", size |-> 72], [path |-> "dejavu", size |-> 76]}

\* a thread enters _draw_text_with_outline_mixed
DrawBegin(p) ==
    /\ epc[p] = "idle"
    /\ \E text \in EmojiTexts, font \in EmojiFonts :
          e_call' = [e_call EXCEPT ![p] = [NoDraw EXCEPT !.text = text, !.font = font, !.k = 1,
                                                         !.cdn0 = cdn]]
    /\ epc' = [epc EXCEPT ![p] = "segment"]
    /\ UNCHANGED <<emoji_cache, cdn>>
    /\ UNCHANGED <<wrapVars, fontVars, zoneVars, composeVars, storage, batchVars, shareVars, unitVars>>

\* the loop over the segments: a plain run is stroked and filled, a symbol
\* goes to _get_emoji_image
DrawSegment(p) ==
    /\ epc[p] = "segment"
    /\ e_call[p].k <= Len(Segs(p))
    /\ IF Segs(p)[e_call[p].k].emoji
       THEN /\ epc' = [epc EXCEPT ![p] = "lookup"]
            /\ e_call' = e_call
       ELSE /\ epc' = epc
            /\ e_call' = [e_call EXCEPT ![p] =
                   Stamp(p, "text", NoBitmap, BBoxWidth(e_call[p].font, Segs(p)[e_call[p].k].s))]
    /\ UNCHANGED <<emoji_cache, cdn>>
    /\ UNCHANGED <<wrapVars, fontVars, zoneVars, composeVars, storage, batchVars, shareVars, unitVars>>

\* `cached = self._emoji_cache.get(cache_key)`; a hit is pasted
GetLookup(p) ==
    /\ epc[p] = "lookup"
    /\ IF CacheKey(p) \in DOMAIN emoji_cache
       THEN /\ epc' = [epc EXCEPT ![p] = "segment"]
            /\ e_call' = [e_call EXCEPT ![p] =
                   Stamp(p, "bitmap", emoji_cache[CacheKey(p)], emoji_render_size(e_call[p].font))]
       ELSE /\ epc' = [epc EXCEPT ![p] = "fetch"]
            /\ e_call' = e_call
    /\ UNCHANGED <<emoji_cache, cdn>>
    /\ UNCHANGED <<wrapVars, fontVars, zoneVars, composeVars, storage, batchVars, shareVars, unitVars>>

\* httpx.get and raise_for_status; on an exception None is returned and the
\* symbol is drawn with the text font
GetFetch(p) ==
    /\ epc[p] = "fetch"
    /\ IF cdn = "up"
       THEN /\ epc' = [epc EXCEPT ![p] = "store"]
            /\ e_call' = [e_call EXCEPT ![p].seen = @ \cup {"bitmap"}]
       ELSE /\ epc' = [epc EXCEPT ![p] = "segment"]
            /\ e_call' = [e_call EXCEPT ![p] =
                   [Stamp(p, "glyph", NoBitmap, emoji_render_size(e_call[p].font))
                       EXCEPT !.seen = @ \cup {"error"}]]
    /\ UNCHANGED <<emoji_cache, cdn>>
    /\ UNCHANGED <<wrapVars, fontVars, zoneVars, composeVars, storage, batchVars, shareVars, unitVars>>

\* the image opened and resized, `self._emoji_cache[cache_key] = img`, pasted
GetStore(p) ==
    /\ epc[p] = "store"
    /\ LET image == Opened(Served(emoji_to_twemoji_url(CacheKey(p)[1])), CacheKey(p)[2])
       IN  /\ emoji_cache' = Put(emoji_cache, CacheKey(p), image)
           /\ e_call' = [e_call EXCEPT ![p] =
                  [Stamp(p, "bitmap", image, emoji_render_size(e_call[p].font)) EXCEPT !.wrote = TRUE]]
    /\ epc' = [epc EXCEPT ![p] = "segment"]
    /\ UNCHANGED cdn
    /\ UNCHANGED <<wrapVars, fontVars, zoneVars, composeVars, storage, batchVars, shareVars, unitVars>>

\* the loop is over
DrawEnd(p) ==
    /\ epc[p] = "segment"
    /\ e_call[p].k > Len(Segs(p))
    /\ epc' = [epc EXCEPT ![p] = "idle"]
    /\ e_call' = [e_call EXCEPT ![p].done = TRUE]
    /\ UNCHANGED <<emoji_cache, cdn>>
    /\ UNCHANGED <<wrapVars, fontVars, zoneVars, composeVars, storage, batchVars, shareVars, unitVars>>

\* the network: the CDN becomes unreachable, or reachable again
CdnChange ==
    /\ cdn' = IF cdn = "up" THEN "down" ELSE "up"
    /\ UNCHANGED <<emoji_cache, epc, e_call>>
    /\ UNCHANGED <<wrapVars, fontVars, zoneVars, composeVars, storage, batchVars, shareVars, unitVars>>

InitEmoji ==
    /\ emoji_cache = <<>>
    /\ cdn \in {"up", "down"}
    /\ epc = [p \in Threads |-> "idle"]
    /\ e_call = [p \in Threads |-> NoDraw]
    /\ ComposeCallOff /\ UnitOff
    /\ WrapOff /\ FontOff /\ ZoneOff
NextEmoji ==
    \/ \E p \in Threads :
          DrawBegin(p) \/ DrawSegment(p) \/ GetLookup(p) \/ GetFetch(p) \/ GetStore(p) \/ DrawEnd(p)
    \/ CdnChange
SpecEmoji == InitEmoji /\ [][NextEmoji]_vars

\* the stored image a result URL names
Stored(url) == storage[url[2]]

\* C14: a batch returns one result per input variation, in input order: n results
\* for n variations, and result i is the image composed for variation i, also
\* when some variations fail.
C14_OneResultPerVariation ==
    (bpc = "returned" /\ b_entry = "batch_compose") =>
        /\ Len(b_result.items) = Len(variations)
        /\ \A i \in 1..Len(b_result.items) :
              Stored(b_result.items[i]).args.hook_text = variations[i].hook

\* the variations given to the batch operation are not a list of objects
Malformed ==
    IF b_entry = "api_compose_batch"
    THEN LET j == b_input.variations_json
         IN  \/ j.kind = "invalid"
             \/ /\ j.kind = "value"
                /\ \/ j.value.type # "list"
                   \/ \E i \in 1..Len(j.value.items) : j.value.items[i].type # "object"
    ELSE \E i \in 1..Len(variations) : variations[i].type # "object"

\* C15: malformed batch input (invalid JSON, not a list, or a list with an element
\* that is not an object) is rejected before any rendering begins: no compose
\* call is started, nothing is saved to storage, and the operation ends with a
\* structured failure rather than an exception.
C15_MalformedRejectedFirst ==
    Malformed =>
        /\ cpc = "off"
        /\ storage = <<>>
        /\ bpc # "raised"
        /\ (bpc = "returned" /\ b_entry = "api_compose_batch") => ~b_result.success

\* C16: copy-on-use of the base image: no compose call draws on the image it is
\* given, whether called directly with _preloaded_image or through
\* batch_compose, so the caller's image stays as it was and every stored output
\* carries only what was drawn for its own call.
C16_BaseImageUntouched ==
    /\ BaseInk = <<>>
    /\ \A k \in 1..Len(storage) : storage[k].ink = storage[k].drawn

\* C17: idempotence: two calls with identical inputs, for which the network
\* answered alike (the CDN in the same state when each began, and no two
\* different answers received), render the same thing, whatever was called
\* before and whatever the symbol-bitmap cache holds.
C17_Idempotent ==
    \A p, q \in Threads :
        ( /\ e_call[p].done /\ e_call[q].done
          /\ e_call[p].text = e_call[q].text
          /\ e_call[p].font = e_call[q].font
          /\ e_call[p].cdn0 = e_call[q].cdn0
          /\ Cardinality(e_call[p].seen \cup e_call[q].seen) <= 1 )
        => e_call[p].out = e_call[q].out

\* the buttons drawn so far
Buttons == {k \in 1..Len(drawn) : drawn[k].kind = "button"}

\* C18: with cta_style = "button" the button carries every word of the CTA text
\* (upper-cased, none dropped) whatever its length, and the button ends at
\* y + text height + 2 * vertical padding.
C18_ButtonShowsCta ==
    \A k \in Buttons :
        /\ Split(drawn[k].text) = Split(Upper(CtaText(args)))
        /\ drawn[k].bottom =
              drawn[k].y + LineHeight([path |-> "any", size |-> drawn[k].size], drawn[k].text)
                         + 2 * PADDING_V

\* C19: the symbol-bitmap cache is append-only with idempotent writes: a key once
\* present stays; every entry under (symbol, size) is a size x size image of that
\* symbol, which is what a single call stores, also when two calls race on the
\* key; and a step in which a fetch fails leaves the cache as it was.
C19_CacheAppendOnly ==
    [][ /\ \A key \in DOMAIN emoji_cache : key \in DOMAIN emoji_cache'
        /\ \A key \in DOMAIN emoji_cache' :
              emoji_cache'[key] = [sym |-> key[1], w |-> key[2], h |-> key[2]]
        /\ \A p \in Threads :
              (epc[p] = "fetch" /\ "error" \in e_call'[p].seen) => emoji_cache' = emoji_cache
      ]_vars
\* two calls raced on the same missing key: both fetched and both stored it
C19_Witness ==
    /\ \A p \in Threads : e_call[p].done /\ e_call[p].wrote
    /\ e_call[1].font = e_call[2].font
    /\ e_call[1].font.size = 72
    /\ Cardinality(DOMAIN emoji_cache) = 1

\* the mandatory background of compose or compose_split was asked for and
\* could not be fetched or decoded
BackgroundFailed ==
    /\ fx.fetch + fx.open > 0
    /\ \/ fn = "compose" /\ img = NoImage
       \/ fn = "compose_split" /\ src_img = NoImage

\* C20: a failure of the mandatory background fails the whole call and persists
\* nothing: the call returns success = false with a message; and any call that
\* returns success = false has saved nothing, any call that returns
\* success = true has saved exactly once.
C20_FailurePersistsNothing ==
    /\ BackgroundFailed =>
          /\ cpc = "returned"
          /\ ~result.success
          /\ result.error # <<>>
          /\ storage = <<>>
    /\ (cpc = "returned" /\ ~result.success) => storage = <<>>
    /\ (cpc = "returned" /\ result.success) => (Len(storage) = 1 /\ fx.save = 1)
\* compose_split returned a failure because its photo could not be loaded
C20_Witness ==
    /\ BackgroundFailed
    /\ fn = "compose_split"
    /\ cpc = "returned"
    /\ ~result.success

\* C3: compose, compose_split, compose_with_stickers and compose_format never
\* let an exception reach the caller: whatever fails (fetch, decode, a colour
\* or a line that cannot be rendered, the storage save), the call ends with a
\* result whose success is a boolean, and a failed result carries an error
\* message.
C3_AlwaysResult ==
    /\ cpc # "raised"
    /\ cpc = "returned" =>
          /\ result.success \in BOOLEAN
          /\ ~result.success => result.error # <<>> /\ Len(result.error) = 2
\* a source that does not decode, in compose_split, returned as a failure
C3_Witness ==
    /\ cpc = "returned"
    /\ entry = "compose_format"
    /\ fn = "compose_split"
    /\ ~result.success
    /\ result.error = <<"Split composition failed", "UnidentifiedImageError">>

\* C6: a successful compose, compose_split or compose_with_stickers reports
\* the size SIZES gives for output_size, 1080x1080 for a preset that is not in
\* the table, and the canvas saved has that size, whatever the size of the
\* source or preloaded image.
C6_OutputDimensions ==
    (cpc \in {"save", "returned"} /\ (cpc = "returned" => result.success))
    => /\ <<img.w, img.h>> = TargetSize(args.output_size)
       /\ TargetSize(args.output_size) =
              IF args.output_size \in DOMAIN SIZES THEN SIZES[args.output_size]
              ELSE <<1080, 1080>>
       /\ cpc = "returned" => result.size = TargetSize(args.output_size)
\* a preloaded 800x600 image composed for the 1080x1920 preset
C6_Witness ==
    /\ cpc = "returned"
    /\ result.success
    /\ args.preloaded = [w |-> 800, h |-> 600, px |-> "photo"]
    /\ args.output_size = "tiktok"
    /\ result.size = <<1080, 1920>>

\* C7: compose_format with a format_type that is none of text_only, meme,
\* stickers, split returns success = false with an error that names the
\* format, and creates no canvas, fetches and opens no image, saves nothing.
C7_UnknownFormatRejected ==
    (entry = "compose_format" /\ args.format_type \notin Formats /\ cpc # "dispatch")
    => /\ cpc = "returned"
       /\ ~result.success
       /\ result.error = <<"Unknown format_type", args.format_type>>
       /\ fx = NoFx
       /\ img = NoImage
\* format_type "gif" with an image URL, answered
C7_Witness ==
    /\ entry = "compose_format"
    /\ cpc = "returned"
    /\ args.format_type = "gif"
    /\ args.image_source = "http://cdn/photo.png"
    /\ ~result.success


\* the blocks of the call that are present: a non-empty hook, body, CTA
Present(a) ==
    (IF a.hook_text # <<>> THEN {"hook"} ELSE {})
    \cup (IF a.body_text # <<>> THEN {"body"} ELSE {})
    \cup (IF CtaText(a) # <<>> THEN {"cta"} ELSE {})
Abs(x) == IF x >= 0 THEN x ELSE -x

\* C8: on a blank background with hook, body and CTA all non-empty and the
\* CTA drawn as text, for every preset and safe-zone profile the drawn stack
\* spans the three block heights plus the two gaps, and it is centred in the
\* content rectangle: first block top - top margin and (height - bottom
\* margin) - last block bottom differ by at most the rounding of the halving.
C8_EvenCentredInContent ==
    (/\ cpc = "save"
     /\ IsBlankSource(args.image_source)
     /\ Present(args) = {"hook", "body", "cta"}
     /\ args.cta_style = "text"
     /\ drawn # <<>>)
    => /\ y_offset - drawn[1].y = SumBlockHeights(blocks, 1) + 2 * EVEN_GAP
       /\ Abs((drawn[1].y - Margins(args).margins.top)
              - ((img.h - Margins(args).margins.bottom) - y_offset)) <= 1

\* C9: an empty hook, body or CTA gives no block, and k >= 1 present blocks
\* are placed over an extent of their heights plus exactly k - 1 gaps (70 on
\* a blank background, 25 between body and CTA on a photograph).
C9_MissingBlocksAbsent ==
    (cpc = "save" /\ fn = "compose" /\ blocks # <<>>)
    => /\ {blocks[i].type : i \in 1..Len(blocks)} =
              IF IsBlankSource(args.image_source) THEN Present(args)
              ELSE Present(args) \ {"hook"}
       /\ Len(blocks) = Cardinality({blocks[i].type : i \in 1..Len(blocks)})
       /\ extent = SumBlockHeights(blocks, 1)
                   + (Len(blocks) - 1)
                     * (IF IsBlankSource(args.image_source) THEN EVEN_GAP ELSE ANCHORED_GAP)

\* C10: the size-reduction loop of the image-background branch ends after at
\* most (65 - 28) \div 3 + 1 = 13 passes whatever the texts: pass n runs at
\* size 65 - 3 * (n - 1), while that is at least 28, and the loop is left at
\* the first fit or when the size drops below 28.
C10_ShrinkBounded ==
    /\ iters <= (BODY_SIZE - MIN_FONT_SIZE) \div SHRINK_STEP + 1
    /\ cpc = "shrink" =>
          /\ current_body_size = BODY_SIZE - SHRINK_STEP * iters
          /\ current_body_size >= MIN_FONT_SIZE
    /\ cpc = "place" =>
          /\ iters >= 1
          /\ \/ extent <= BottomBand(args, img)
                /\ current_body_size = BODY_SIZE - SHRINK_STEP * (iters - 1)
             \/ extent > BottomBand(args, img)
                /\ current_body_size < MIN_FONT_SIZE
                /\ current_body_size = BODY_SIZE - SHRINK_STEP * iters
\* a long body that fits at no size: the loop left below the floor after 13 passes
C10_Witness ==
    /\ cpc = "place"
    /\ iters = 13
    /\ Len(args.body_text) > 60
    /\ extent > BottomBand(args, img)
    /\ current_body_size < MIN_FONT_SIZE

\* the body and CTA items drawn so far
BottomItems == {i \in 1..Len(drawn) : drawn[i].block \in {"body", "cta"}}
\* the while loop was left without a fit
Overflowed == fn = "compose" /\ iters > 0 /\ current_body_size < MIN_FONT_SIZE

\* C11: when body and CTA fit the bottom band at no size, compose does not
\* fail for it, and body and CTA are drawn at the floor size MIN_FONT_SIZE = 28.
C11_FloorRendering ==
    /\ (Overflowed /\ cpc = "returned" /\ ~result.success)
           => result.error[2] \in {"StorageError", "IndexError"}
    /\ (Overflowed /\ cpc = "save")
           => \A i \in BottomItems : drawn[i].size = MIN_FONT_SIZE

\* ------------------------------------------- compose_format, format meme
LongHook == WordsOf(12, 6, "w")
LongBody == WordsOf(11, 17, "W")
InitMeme ==
    /\ entry = "compose_format"
    /\ cpc = "dispatch"
    /\ fn = ""
    /\ args \in {FormatArgs("meme", "http://cdn/photo.png", hook, body, cta, "tiktok", st, <<>>) :
                    hook \in {ShortHook, LongHook}, body \in {ShortBody, LongBody},
                    cta \in {<<"g", "o">>, WordsOf(2, 16, "w")}, st \in CtaStyles}
    /\ fs = DockerFs
    /\ ComposeIdle /\ storage = <<>> /\ BatchOff /\ EmojiOff /\ UnitOff
    /\ WrapOff /\ FontCallOff /\ ZoneOff
NextMeme ==
    ComposeFormat \/ ComposeLoad \/ ComposeHook \/ ComposeShrink \/ ComposePlace \/ ComposeSave
SpecMeme == InitMeme /\ [][NextMeme]_vars

\* int(height * 0.40) and int(height * 0.60)
MiddleTop(image) == (image.h * 40) \div 100
MiddleBottom(image) == (image.h * 60) \div 100

\* C12: format meme, a photo that loads, output_size tiktok, hook, body and
\* CTA non-empty and of any length: the first hook line is drawn at the top
\* margin, the body + CTA stack ends at height - bottom margin, and nothing
\* drawn reaches into the band between 40% and 60% of the height or below
\* height - bottom margin.
C12_BandsClear ==
    (/\ cpc = "save"
     /\ args.format_type = "meme"
     /\ args.output_size = "tiktok"
     /\ Present(args) = {"hook", "body", "cta"})
    => /\ drawn # <<>>
       /\ drawn[1].block = "hook"
       /\ drawn[1].y = Margins(args).margins.top
       /\ y_offset = img.h - Margins(args).margins.bottom
       /\ \A i \in 1..Len(drawn) :
             /\ drawn[i].ink_bottom <= MiddleTop(img) \/ drawn[i].ink_top >= MiddleBottom(img)
             /\ drawn[i].ink_bottom <= img.h - Margins(args).margins.bottom

\* the stickers pasted so far
Stickers == {k \in 1..Len(drawn) : drawn[k].kind = "sticker"}

\* C13: in compose_with_stickers a sticker that fails to load is skipped and
\* the loop goes on: at most the first four URLs are fetched, once each, every
\* sticker pasted is one of them, at the corner of its index, in list order,
\* and the call fails only if the storage save fails.
C13_StickersSkipped ==
    fn = "compose_with_stickers" =>
        /\ fx.fetch <= 4 /\ fx.fetch <= Len(args.sticker_urls)
        /\ cpc = "stickers" => fx.fetch = s_i - 1
        /\ (cpc = "save" \/ (cpc = "returned" /\ result.success))
               => fx.fetch = Min(Len(args.sticker_urls), 4)
        /\ \A k \in Stickers :
              /\ drawn[k].size \in 1..fx.fetch
              /\ drawn[k].block = args.sticker_urls[drawn[k].size]
              /\ <<drawn[k].x, drawn[k].y>> =
                     StickerPositions(img.w, img.h, Margins(args).margins)[drawn[k].size]
              /\ \A j \in Stickers : j < k => drawn[j].size < drawn[k].size
        /\ (cpc = "returned" /\ ~result.success) => result.error[2] = "StorageError"
\* five URLs, of which the second and the fourth loaded: success with two stickers
C13_Witness ==
    /\ fn = "compose_with_stickers"
    /\ cpc = "returned"
    /\ result.success
    /\ Len(args.sticker_urls) = 5
    /\ {drawn[k].size : k \in Stickers} = {2, 4}
    /\ fx.fetch = 4

\* C21: on a blank background, with a storage that saves, compose returns
\* success = true for every hook, body and CTA text (empty, whitespace only, one
\* over-long word, any length) and for both CTA styles.
C21_ArbitraryTextComposes ==
    ( /\ cpc = "returned"
      /\ fn = "compose"
      /\ IsBlankSource(args.image_source)
      /\ result.error # <<ErrorPrefix(fn), "StorageError">> )
    => result.success

\* C22: _wrap_text is greedy: no returned line is empty, and for consecutive
\* lines L and M, L joined by one space with the first word of M measures wider
\* than max_width - a word starts a new line only when it does not fit.
C22_WrapGreedy ==
    wpc = "done" =>
        /\ \A k \in 1..Len(lines) : lines[k] # <<>>
        /\ \A k \in 1..(Len(lines) - 1) :
              measure_text_mixed(lines[k] \o <<" ">> \o Split(lines[k + 1])[1], w_font)
                  > w_max_width
\* a line of two words followed by a line whose first word did not fit on it
C22_Witness ==
    /\ wpc = "done"
    /\ Len(lines) >= 2
    /\ Len(Split(lines[1])) >= 2
    /\ measure_text_mixed(lines[1], w_font) <= w_max_width

\* ------------------------------------------------ _iter_text_segments, called
InitSegments ==
    /\ spc = "call"
    /\ s_text \in TextsUpTo(MaxLen)
    /\ segments = <<>>
    /\ ColourOff /\ ModernOff
    /\ ComposeCallOff /\ EmojiOff
    /\ WrapOff /\ FontOff /\ ZoneOff
IterTextSegments ==
    /\ spc = "call"
    /\ segments' = iter_text_segments(s_text)
    /\ spc' = "done"
    /\ UNCHANGED <<s_text, dpc, d_colors, d_result, mpc, m_input, m_result>>
    /\ UNCHANGED <<wrapVars, fontVars, zoneVars, composeVars, storage, batchVars, shareVars,
                   emojiVars>>
NextSegments == IterTextSegments
SpecSegments == InitSegments /\ [][NextSegments]_vars

\* the substrings of the segments from the i-th on, concatenated
RECURSIVE ConcatFrom(_, _)
ConcatFrom(segs, i) == IF i > Len(segs) THEN <<>> ELSE segs[i].s \o ConcatFrom(segs, i + 1)

\* C23: the substrings returned by _iter_text_segments, concatenated in order,
\* are the text exactly (spaces included); no segment is empty, no two adjacent
\* segments are both plain, and the empty text gives the empty sequence.
C23_SegmentsRoundTrip ==
    spc = "done" =>
        /\ ConcatFrom(segments, 1) = s_text
        /\ \A k \in 1..Len(segments) : segments[k].s # <<>>
        /\ \A k \in 1..(Len(segments) - 1) : segments[k].emoji \/ segments[k + 1].emoji
        /\ (s_text = <<>> => segments = <<>>)
\* a text segmented into a plain run with a space, a symbol and a plain tail
C23_Witness ==
    /\ spc = "done"
    /\ Len(segments) = 3
    /\ ~segments[1].emoji /\ segments[2].emoji /\ ~segments[3].emoji
    /\ \E i \in 1..Len(segments[1].s) : IsSpace(segments[1].s[i])

\* the sizes the while loop can try: 65, 62, 59, ... while at least the floor
SizeSequence ==
    {x \in MIN_FONT_SIZE..BODY_SIZE : (BODY_SIZE - x) % SHRINK_STEP = 0}
\* body and CTA measured at size x fit between the 60% line and the bottom margin
FitsAt(x) ==
    ShrinkPass(args, fs, x, MaxTextWidth(args, img)).total_height <= BottomBand(args, img)

\* C24: in anchored mode, when some size of the sequence 65, 62, 59, ... fits, the
\* body size rendered is the largest one that fits (no smaller size is used
\* while a larger one fits), and the blocks rendered are the fonts and lines
\* measured at that size.
C24_LargestFittingSize ==
    ( /\ fn = "compose"
      /\ cpc \in {"place", "save"}
      /\ iters > 0
      /\ \E x \in SizeSequence : FitsAt(x) )
    => /\ FitsAt(current_body_size)
       /\ \A x \in SizeSequence : x > current_body_size => ~FitsAt(x)
       /\ blocks = ShrinkPass(args, fs, current_body_size, MaxTextWidth(args, img)).text_blocks
       /\ cpc = "save" =>
             \A i \in BottomItems :
                 \E b \in 1..Len(blocks) :
                     /\ blocks[b].type = drawn[i].block
                     /\ blocks[b].font.size = drawn[i].size
                     /\ \E l \in 1..Len(blocks[b].lines) : blocks[b].lines[l] = drawn[i].text
\* a body that did not fit at 65 and 62 and is rendered at 59
C24_Witness ==
    /\ fn = "compose"
    /\ cpc = "save"
    /\ current_body_size = 59
    /\ FitsAt(59) /\ ~FitsAt(62) /\ ~FitsAt(65)
    /\ \E i \in BottomItems : drawn[i].block = "body" /\ drawn[i].size = 59

\* the first and the last body/CTA item drawn
FirstBottomItem == CHOOSE i \in BottomItems : \A j \in BottomItems : i <= j
LastBottomItem == CHOOSE i \in BottomItems : \A j \in BottomItems : j <= i

MaxFillers == 11
\* colours outside the limits: near-black, near-white, and bare numbers
Filler(kind, j) ==
    CASE kind = "dark" -> Rgb(0, 0, j)
      [] kind = "light" -> Rgb(255, 255, 140 + j)
      [] kind = "bare" -> Bare(100 + j)
\* colours at and next to the two limits: sums 100, 101, 649, 650
Candidates == {Rgb(50, 50, 0), Rgb(50, 51, 0), Rgb(255, 255, 139), Rgb(255, 255, 140)}
ColourLists ==
    {<<>>} \cup
    {LET fillers == [j \in 1..k |-> [count |-> 2, color |-> Filler(kind, j)]]
         cands == <<[count |-> n1, color |-> c1], [count |-> n2, color |-> c2]>>
     IN  IF front THEN cands \o fillers ELSE fillers \o cands :
        k \in 0..MaxFillers, kind \in {"dark", "light", "bare"},
        c1 \in Candidates, c2 \in Candidates \ {Rgb(255, 255, 140)},
        n1 \in 1..3, n2 \in 1..3, front \in BOOLEAN}

InitColour ==
    /\ dpc = "call" /\ d_colors \in ColourLists /\ d_result = <<>>
    /\ SegmentsOff /\ ModernOff
    /\ ComposeCallOff /\ EmojiOff /\ WrapOff /\ FontOff /\ ZoneOff

ExtractDominantColor ==
    /\ dpc = "call"
    /\ d_result' = DominantOf(d_colors)
    /\ dpc' = "done"
    /\ UNCHANGED <<d_colors, spc, s_text, segments, mpc, m_input, m_result>>
    /\ UNCHANGED <<wrapVars, fontVars, zoneVars, composeVars, storage, batchVars, shareVars, emojiVars>>

NextColour == ExtractDominantColor
SpecColour == InitColour /\ [][NextColour]_vars

\* the entries of the list that are (r, g, b) tuples with 100 < r + g + b < 650
InRange == {i \in DOMAIN d_colors :
               /\ d_colors[i].color.tuple
               /\ d_colors[i].color.r + d_colors[i].color.g + d_colors[i].color.b > 100
               /\ d_colors[i].color.r + d_colors[i].color.g + d_colors[i].color.b < 650}
AtLeastAsFrequent(i) == {j \in DOMAIN d_colors \ {i} : d_colors[j].count >= d_colors[i].count}
MoreFrequent(i) == {j \in DOMAIN d_colors : d_colors[j].count > d_colors[i].count}

\* C26: the colour returned is the most frequent one, among the ten most
\* frequent colours of the thumbnail, whose r + g + b lies strictly between
\* 100 and 650, and is #FF5722 when none of the ten qualifies; so the
\* r + g + b of the colour returned is always strictly between 100 and 650.
C26_DominantInRange ==
    dpc = "done" =>
        /\ HexSum(d_result) > 100 /\ HexSum(d_result) < 650
        /\ \/ /\ d_result = DEFAULT_BUTTON
              /\ \A i \in InRange : Cardinality(AtLeastAsFrequent(i)) >= 10
           \/ \E i \in InRange :
                 /\ d_result = Hex(d_colors[i].color)
                 /\ Cardinality(MoreFrequent(i)) < 10
                 /\ \A j \in InRange : d_colors[j].count <= d_colors[i].count
\* more than ten colours, a more frequent one outside the limits passed
\* over, and the colour in range returned ahead of as frequent ones
C26_Witness ==
    /\ dpc = "done" /\ Len(d_colors) > 10
    /\ \E i \in InRange :
          /\ d_result = Hex(d_colors[i].color)
          /\ MoreFrequent(i) # {}
          /\ Cardinality(AtLeastAsFrequent(i)) >= 10

\* C27: resolving a role of FONT_STYLES (bold, clean, modern, classic) goes
\* through the candidate list of the family the table assigns to it: the
\* font returned is the first of that family's candidates that exists and
\* loads, or the built-in default when none of them does.
C27_RoleUsesItsFamily ==
    (fpc = "done" /\ f_name \in DOMAIN FONT_STYLES) =>
        LET paths == FONT_PATHS[FONT_STYLES[f_name]]
        IN  IF Loadable(paths) = {}
            THEN f_result = DefaultFont
            ELSE f_result = [path |-> paths[FirstOf(Loadable(paths))], size |-> f_size]

\* C28: in the response of api_compose_batch the hook, body and cta of every
\* creative are those of the variation whose composition produced the
\* creative's url, whichever variations succeeded and failed.
C28_CreativeLabelsItsImage ==
    (bpc = "returned" /\ b_entry = "api_compose_batch" /\ b_result.success) =>
        \A i \in 1..Len(b_result.items) :
            LET made == Stored(b_result.items[i].url).args
            IN  /\ b_result.items[i].hook = made.hook_text
                /\ b_result.items[i].body = made.body_text
                /\ b_result.items[i].cta = made.cta_text

\* the button drawn by the call, if any
ButtonItems == {k \in DOMAIN drawn : drawn[k].kind = "button"}

\* C29: on a photo background with cta_button_color = "auto" the colour of
\* the button depends on the photo and the output size only: it is the
\* colour extracted from the photo as resized, whatever hook text and text
\* colours the call was given.
C29_ButtonColourFromPhotoOnly ==
    (fn = "compose" /\ cpc \in {"save", "returned"} /\ img.px = "photo"
        /\ args.cta_button_color = "auto") =>
        \A k \in ButtonItems : drawn[k].fill = extract_dominant_color(img, <<>>, <<>>)

\* ---------------------------------------------------------------------
\* api_compose_modern (routes.py) over ModernCompositor
\* the values of DesignPreset
DesignPresets == {"neon", "minimal", "gradient", "bold", "glass"}
\* preset.lower(), on the preset names of the model
LowerPreset(p) == IF p = "NEON" THEN "neon" ELSE p

\* the parameters of ModernCompositor.compose and those without a default
ComposeParams == {"hook_text", "body_text", "cta_text", "preset", "output_size",
                  "background_image_url", "custom_colors", "font_name", "text_position"}
ComposeRequired == {"hook_text", "body_text", "cta_text"}
\* the parameters of ModernCompositor.compose_with_image_overlay
OverlayParams == {"hook_text", "body_text", "cta_text", "background_image_bytes", "preset",
                  "output_size", "darken", "use_floor_fade", "font_name", "text_position"}
OverlayRequired == {"hook_text", "body_text", "cta_text", "background_image_bytes"}
\* the keywords the route passes to each of the two
ComposeKeywords == {"hook_text", "body_text", "cta_text", "preset", "output_size"}
OverlayKeywords == {"hook_text", "body_text", "cta_text", "background_image_url", "preset",
                    "output_size", "darken"}

\* Python's binding of a call by keywords to a signature: the exception, "" when none
Bind(params, required, keywords) ==
    IF ~(keywords \subseteq params) \/ ~(required \subseteq keywords) THEN "TypeError" ELSE ""

ModernFailure(exc) == [success |-> FALSE, error |-> exc, url |-> <<>>]

ModernCalls ==
    [kind : {"call"}, hook_text : {<<"a">>, ShortHook}, body_text : {<<>>, ShortBody},
     preset : DesignPresets \cup {"NEON", "retro"},
     output_size : {"instagram_square", "tiktok", "billboard"},
     background_image_url : {"", "http://cdn/photo.png"},
     renders : BOOLEAN, saves : BOOLEAN]

InitModern ==
    /\ mpc = "validate" /\ m_input \in ModernCalls /\ m_result = NoModernResult
    /\ SegmentsOff /\ ColourOff
    /\ ComposeCallOff /\ EmojiOff /\ WrapOff /\ FontOff /\ ZoneOff

\* design_preset = DesignPreset(preset.lower()), ValueError answered at once
ModernValidate ==
    /\ mpc = "validate"
    /\ IF LowerPreset(m_input.preset) \in DesignPresets
       THEN mpc' = "compose" /\ m_result' = m_result
       ELSE mpc' = "returned" /\ m_result' = ModernFailure("Invalid preset")
    /\ UNCHANGED <<m_input, spc, s_text, segments, dpc, d_colors, d_result>>
    /\ UNCHANGED <<wrapVars, fontVars, zoneVars, composeVars, storage, batchVars, shareVars, emojiVars>>

\* `if background_image_url:` and the call of the compositor on either side;
\* any exception ends in the outer `except Exception`
ModernCompose ==
    /\ mpc = "compose"
    /\ LET bound == IF m_input.background_image_url # ""
                    THEN Bind(OverlayParams, OverlayRequired, OverlayKeywords)
                    ELSE Bind(ComposeParams, ComposeRequired, ComposeKeywords)
           exc == IF bound # "" THEN bound
                  ELSE IF ~m_input.renders THEN "RenderError" ELSE ""
       IN  IF exc # ""
           THEN mpc' = "returned" /\ m_result' = ModernFailure(exc)
           ELSE mpc' = "save" /\ m_result' = m_result
    /\ UNCHANGED <<m_input, spc, s_text, segments, dpc, d_colors, d_result>>
    /\ UNCHANGED <<wrapVars, fontVars, zoneVars, composeVars, storage, batchVars, shareVars, emojiVars>>

\* filename, url = await storage.save(image_bytes), and the return
ModernSave ==
    /\ mpc = "save"
    /\ storage' = Store(storage, m_input.saves,
                        [args |-> m_input, drawn |-> <<>>, ink |-> <<>>, size |-> <<0, 0>>])
    /\ mpc' = "returned"
    /\ m_result' = IF m_input.saves
                   THEN [success |-> TRUE, error |-> "", url |-> <<"composed", Len(storage) + 1>>]
                   ELSE ModernFailure("StorageError")
    /\ UNCHANGED <<m_input, spc, s_text, segments, dpc, d_colors, d_result>>
    /\ UNCHANGED <<wrapVars, fontVars, zoneVars, composeVars, batchVars, shareVars, emojiVars>>

NextModern == ModernValidate \/ ModernCompose \/ ModernSave
SpecModern == InitModern /\ [][NextModern]_vars

\* C30: api_compose_modern with a valid preset and a background_image_url
\* answers as it does without one: where the rendering and the storage do
\* their part it returns success = true with the url of the stored image.
C30_OverlaySucceeds ==
    (mpc = "returned" /\ LowerPreset(m_input.preset) \in DesignPresets
        /\ m_input.background_image_url # "" /\ m_input.renders /\ m_input.saves) =>
        /\ m_result.success
        /\ m_result.url # <<>>

====
